---- MODULE Spec2Model ----
(***************************************************************************)
(* Shipper chat: the Socket.io relay (src/server/websocket.ts) and the     *)
(* session/message routes over the Prisma store.                           *)
(*                                                                         *)
(* Identities are numbered 1..NumUsers in the order of their id strings,   *)
(* so that [a, b].sort() is the numeric order.  Socket ids, session ids    *)
(* and message ids are the index at which the object was created.  Every   *)
(* await of a store call is one step: the store executes the call, the     *)
(* handler runs on to its next await.                                      *)
(***************************************************************************)
EXTENDS Integers, Sequences, FiniteSets, TLC

\* ------------------------------------------------------------------ bounds
NumUsers == 2
MaxConns == 2
MaxSends == 2
MaxClock == 1
MaxFaults == 1
MaxSignals == 1
MaxRequests == 2

Users == 1..NumUsers
ConnIds == 1..MaxConns
SendIds == 1..MaxSends
RequestIds == 1..MaxRequests
\* a user id no User row has
UnknownUser == -1
NoUser == 0
NoConn == 0
NoSession == 0
NoMsg == 0
\* a session id no row has
UnknownSession == -1

VARIABLES
    secret,        \* process.env.NEXTAUTH_SECRET is set
    sockets,       \* every socket that reached the middleware, by socket id
    onlineUsers,   \* Map<userId, socketId>; NoConn = no entry
    chatSessions,  \* ChatSession rows, by id
    messages,      \* Message rows, by id
    sends,         \* one record per message:send handler invocation
    emitted,       \* every server-side emit, in order
    now,           \* the clock read by new Date() and CURRENT_TIMESTAMP
    faults,        \* store calls that have thrown for a reason of the store
    signals,       \* the status:request and typing events handled so far, in order
    requests,      \* one record per HTTP request to a route handler
    window,        \* the state of the ChatWindow component of one browser tab
    link           \* that tab's socket: its listeners, timers and events in flight

vars == <<secret, sockets, onlineUsers, chatSessions, messages, sends, emitted, now, faults,
          signals, requests, window, link>>

\* ------------------------------------------------------------- the store
SortPairUnsorted(a, b) == <<a, b>>
\* const [user1Id, user2Id] = [userId, recipientId].sort()
SortPair(a, b) == IF a <= b THEN <<a, b>> ELSE <<b, a>>

\* prisma.chatSession.findUnique({ where: { id } }): the id, or NoSession
FindSessionById(id) == IF id \in DOMAIN chatSessions THEN id ELSE NoSession

\* prisma.chatSession.findUnique({ where: { user1Id_user2Id } })
FindSessionByPair(p) ==
    LET hit == {i \in DOMAIN chatSessions :
                   chatSessions[i].user1Id = p[1] /\ chatSessions[i].user2Id = p[2]}
    IN  IF hit = {} THEN NoSession ELSE CHOOSE i \in hit : TRUE

\* the row prisma.chatSession.create inserts
NewSession(p, ai, ts) == [user1Id |-> p[1], user2Id |-> p[2], isAiChat |-> ai,
                          createdAt |-> ts, updatedAt |-> ts]

\* the row prisma.message.create inserts
NewMessage(content, senderId, recipientId, sessionId, ai, ts) ==
    [content |-> content, senderId |-> senderId, recipientId |-> recipientId,
     sessionId |-> sessionId, isAiMessage |-> ai, createdAt |-> ts]

\* the clock is read only when a row is written: the time that has passed since
\* the last reading is chosen at the reading
Elapsed == 0..1

\* the sessionId a client may put in a payload: none, a row's id, or an unknown one
SessionInputs == {NoSession, UnknownSession} \cup DOMAIN chatSessions

\* the payloads of message:send: <<recipientId, content, sessionId>>
SendInputs ==
    {<<r, "hi", sid>> : r \in Users, sid \in {NoSession, UnknownSession} \cup SendIds}
    \cup {<<NoUser, "hi", NoSession>>, <<1, "", NoSession>>}

\* a store call may throw for a reason of its own (connection lost, timeout)
CanFault == faults < MaxFaults

\* -------------------------------------------------------------- emitting
IsOpen(c) == c \in DOMAIN sockets /\ sockets[c].st = "open"
OpenConns == {c \in DOMAIN sockets : sockets[c].st = "open"}

\* the payload of an event that carries no message
NoData == [id |-> NoMsg, content |-> "", senderId |-> NoUser, recipientId |-> NoUser,
           sessionId |-> NoSession, createdAt |-> 0]

\* one emit: the event, the socket it is addressed to (NoConn: io.emit to all),
\* the sockets it reaches, the socket whose handler emits it, and its payload
Event(ev, to, rcv, src, send, msg, user, list, err) ==
    [ev |-> ev, to |-> to, rcv |-> rcv, src |-> src, send |-> send, msg |-> msg,
     user |-> user, list |-> list, err |-> err, sid |-> NoSession, data |-> NoData]

\* socket.emit / io.to(socketId).emit: reaches the socket only while it is connected
ToSocket(ev, c, src, send, msg, user, list, err) ==
    Event(ev, c, IF IsOpen(c) THEN {c} ELSE {}, src, send, msg, user, list, err)

\* ------------------------------------------------------------- handshake
ValidTokens == {[kind |-> "valid", id |-> u] : u \in Users}
\* a forged or expired token claims identity 1
BadTokens == {[kind |-> "none", id |-> NoUser], [kind |-> "badsig", id |-> 1],
              [kind |-> "expired", id |-> 1]}
Tokens == ValidTokens \cup BadTokens

AuthenticateNoVerify(token, secretSet) ==
    IF token.kind = "none" THEN "Authentication error: No token provided"
    ELSE IF ~secretSet THEN "Server configuration error"
    ELSE "ok"
\* io.use: the JWT middleware
Authenticate(token, secretSet) ==
    IF token.kind = "none" THEN "Authentication error: No token provided"
    ELSE IF ~secretSet THEN "Server configuration error"
    ELSE IF token.kind # "valid" THEN "Authentication error: Invalid token"
    ELSE "ok"

OnlineKeysBeforeSet(reg) == {u \in Users : onlineUsers[u] # NoConn}
\* onlineUsers.keys()
OnlineKeys(reg) == {u \in Users : reg[u] # NoConn}

RegistryAfterConnectKeepFirst(reg, u, c) ==
    IF reg[u] # NoConn THEN reg ELSE [reg EXCEPT ![u] = c]
\* onlineUsers.set(userId, socket.id)
RegistryAfterConnect(reg, u, c) == [reg EXCEPT ![u] = c]

\* a connection attempt: the middleware, then io.on("connection")
Connect(token) ==
    /\ Len(sockets) < MaxConns
    /\ LET c == Len(sockets) + 1
           res == Authenticate(token, secret)
       IN  IF res # "ok"
           THEN /\ sockets' = Append(sockets, [st |-> "refused", userId |-> NoUser,
                                               token |-> token, err |-> res])
                /\ UNCHANGED <<onlineUsers, emitted>>
           ELSE LET u == token.id
                    reg == RegistryAfterConnect(onlineUsers, u, c)
                    open == OpenConns \cup {c}
                IN  /\ sockets' = Append(sockets, [st |-> "open", userId |-> u,
                                                   token |-> token, err |-> "ok"])
                    /\ onlineUsers' = reg
                    /\ emitted' = emitted \o
                         <<Event("user:online", NoConn, open, c, 0, NoMsg, u, {}, ""),
                           Event("users:online", c, {c}, c, 0, NoMsg, NoUser, OnlineKeys(reg), "")>>
    /\ UNCHANGED <<secret, chatSessions, messages, sends, now, faults, signals, requests, window, link>>

RegistryAfterDisconnectUnlessSuperseded(reg, u, c) ==
    IF \E d \in OpenConns \ {c} : sockets[d].userId = u THEN reg ELSE [reg EXCEPT ![u] = NoConn]
RegistryAfterDisconnectNoDelete(reg, u, c) == reg
\* onlineUsers.delete(userId)
RegistryAfterDisconnect(reg, u, c) == [reg EXCEPT ![u] = NoConn]

\* socket.on("disconnect")
Disconnect(c) ==
    /\ IsOpen(c)
    /\ LET u == sockets[c].userId
       IN  /\ sockets' = [sockets EXCEPT ![c].st = "closed"]
           /\ onlineUsers' = RegistryAfterDisconnect(onlineUsers, u, c)
           /\ emitted' = Append(emitted,
                Event("user:offline", NoConn, OpenConns \ {c}, c, 0, NoMsg, u, {}, ""))
    /\ UNCHANGED <<secret, chatSessions, messages, sends, now, faults, signals, requests, window, link>>

UserIdOfLastConnection(c) == sockets[Len(sockets)].userId
\* const userId = socket.data.userId: the handlers of socket c close over it
UserIdOf(c) == sockets[c].userId

\* one handled status:request or typing event: the socket, the event, its payload
\* and the length of the emit log when the handler ran
Signal(c, ev, rcpt, sid) ==
    [conn |-> c, ev |-> ev, rcpt |-> rcpt, sid |-> sid, at |-> Len(emitted)]

\* socket.on("status:request")
StatusRequest(c) ==
    /\ IsOpen(c)
    /\ Len(signals) < MaxSignals
    /\ signals' = Append(signals, Signal(c, "status:request", NoUser, NoSession))
    /\ emitted' = Append(emitted,
          Event("users:online", c, {c}, c, 0, NoMsg, NoUser, OnlineKeys(onlineUsers), ""))
    /\ UNCHANGED <<secret, sockets, onlineUsers, chatSessions, messages, sends, now, faults, requests, window, link>>

TypingEvents == {"typing:start", "typing:stop"}

TypingRelayAcked(c, ev, rcpt, sid) ==
    IF rcpt = NoUser \/ sid = NoSession
    THEN <<>>
    ELSE (IF onlineUsers[rcpt] = NoConn
          THEN <<>>
          ELSE <<[ToSocket(ev, onlineUsers[rcpt], c, 0, NoMsg, sockets[c].userId, {}, "")
                     EXCEPT !.sid = sid]>>)
         \o <<[ToSocket(ev, c, c, 0, NoMsg, sockets[c].userId, {}, "") EXCEPT !.sid = sid]>>
\* the emits of a typing handler: nothing when a field is missing or the registry
\* has no entry for the recipient, else the event to the registered socket
TypingRelay(c, ev, rcpt, sid) ==
    IF rcpt = NoUser \/ sid = NoSession \/ onlineUsers[rcpt] = NoConn
    THEN <<>>
    ELSE <<[ToSocket(ev, onlineUsers[rcpt], c, 0, NoMsg, UserIdOf(c), {}, "")
               EXCEPT !.sid = sid]>>

\* socket.on("typing:start") and socket.on("typing:stop")
Typing(c, ev, rcpt, sid) ==
    /\ IsOpen(c)
    /\ Len(signals) < MaxSignals
    /\ signals' = Append(signals, Signal(c, ev, rcpt, sid))
    /\ emitted' = emitted \o TypingRelay(c, ev, rcpt, sid)
    /\ UNCHANGED <<secret, sockets, onlineUsers, chatSessions, messages, sends, now, faults, requests, window, link>>

\* ------------------------------------------------------ message:send
StorePcs == {"findById", "findByPair", "createSession", "createMsg", "updateSession"}

SetSend(t, r) == sends' = [sends EXCEPT ![t] = r]

RejectToAll(t, text, outcome) ==
    /\ emitted' = Append(emitted,
          Event("message:error", NoConn, OpenConns, sends[t].conn, t, NoMsg, NoUser, {}, text))
    /\ SetSend(t, [sends[t] EXCEPT !.pc = "done", !.outcome = outcome])
\* socket.emit("message:error", ...) and return
Reject(t, text, outcome) ==
    /\ emitted' = Append(emitted,
          ToSocket("message:error", sends[t].conn, sends[t].conn, t, NoMsg, NoUser, {}, text))
    /\ SetSend(t, [sends[t] EXCEPT !.pc = "done", !.outcome = outcome])

MissingFieldsRecipientOnly(rcpt, content) == rcpt = NoUser
\* if (!recipientId || !content)
MissingFields(rcpt, content) == rcpt = NoUser \/ content = ""

\* A send record holds the handler's closure and locals: conn (socket), userId,
\* the payload (rcpt, content, sid), session, msg (message.id), updTs (the new
\* Date() of the update) and lookup (recipientSocketId); pc is the await the
\* handler is suspended at.  onlineAtIssue, delivering (the delivery step has
\* run) and outcome record what happened, for the properties below.
\* The handler up to its first await:
IssueSend(c, rcpt, content, sid) ==
    /\ IsOpen(c)
    /\ Len(sends) < MaxSends
    /\ sid \in SessionInputs
    /\ LET t == Len(sends) + 1
           r == [pc |-> "done", conn |-> c, userId |-> UserIdOf(c), rcpt |-> rcpt,
                 content |-> content, sid |-> sid, session |-> NoSession, msg |-> NoMsg,
                 updTs |-> 0, lookup |-> NoConn, delivering |-> FALSE,
                 onlineAtIssue |-> (rcpt \in Users /\ onlineUsers[rcpt] # NoConn),
                 outcome |-> "missing"]
       IN  IF MissingFields(rcpt, content)
           THEN /\ sends' = Append(sends, r)
                /\ emitted' = Append(emitted,
                      ToSocket("message:error", c, c, t, NoMsg, NoUser, {},
                               "Missing required fields: recipientId and content"))
           ELSE /\ sends' = Append(sends,
                      [r EXCEPT !.pc = IF sid # NoSession THEN "findById" ELSE "findByPair",
                                !.outcome = ""])
                /\ UNCHANGED emitted
    /\ UNCHANGED <<secret, sockets, onlineUsers, chatSessions, messages, now, faults, signals, requests, window, link>>

\* session = await prisma.chatSession.findUnique({ where: { id: sessionId } })
FindById(t) ==
    /\ t \in DOMAIN sends
    /\ sends[t].pc = "findById"
    /\ LET s == FindSessionById(sends[t].sid)
       IN  IF s = NoSession
           THEN Reject(t, "Failed to create or find session", "nosession")
           ELSE /\ SetSend(t, [sends[t] EXCEPT !.pc = "createMsg", !.session = s])
                /\ UNCHANGED emitted
    /\ UNCHANGED <<secret, sockets, onlineUsers, chatSessions, messages, now, faults, signals, requests, window, link>>

\* session = await prisma.chatSession.findUnique({ where: { user1Id_user2Id } })
FindByPair(t) ==
    /\ t \in DOMAIN sends
    /\ sends[t].pc = "findByPair"
    /\ LET s == FindSessionByPair(SortPair(sends[t].userId, sends[t].rcpt))
       IN  SetSend(t, [sends[t] EXCEPT
                         !.pc = IF s = NoSession THEN "createSession" ELSE "createMsg",
                         !.session = s])
    /\ UNCHANGED <<secret, sockets, onlineUsers, chatSessions, messages, emitted, now, faults, signals, requests, window, link>>

\* session = await prisma.chatSession.create(...): the unique index on
\* (user1Id, user2Id) makes the insert throw P2002, which the handler's catch reports
CreateSession(t, d) ==
    /\ t \in DOMAIN sends
    /\ sends[t].pc = "createSession"
    /\ now + d <= MaxClock
    /\ now' = now + d
    /\ LET p == SortPair(sends[t].userId, sends[t].rcpt)
       IN  IF FindSessionByPair(p) # NoSession
           THEN /\ Reject(t, "Failed to send message", "P2002")
                /\ UNCHANGED chatSessions
           ELSE /\ chatSessions' = Append(chatSessions, NewSession(p, FALSE, now'))
                /\ SetSend(t, [sends[t] EXCEPT !.pc = "createMsg",
                                               !.session = Len(chatSessions) + 1])
                /\ UNCHANGED emitted
    /\ UNCHANGED <<secret, sockets, onlineUsers, messages, faults, signals, requests, window, link>>

\* message = await prisma.message.create(...); then new Date() for the update
CreateMsg(t, d) ==
    /\ t \in DOMAIN sends
    /\ sends[t].pc = "createMsg"
    /\ now + d <= MaxClock
    /\ now' = now + d
    /\ messages' = Append(messages,
          NewMessage(sends[t].content, sends[t].userId, sends[t].rcpt, sends[t].session,
                     FALSE, now'))
    /\ SetSend(t, [sends[t] EXCEPT !.pc = "updateSession", !.msg = Len(messages) + 1,
                                   !.updTs = now'])
    /\ UNCHANGED <<secret, sockets, onlineUsers, chatSessions, emitted, faults, signals, requests, window, link>>

MessageDataOfRequest(m) ==
    [id |-> NoMsg, content |-> messages[m].content, senderId |-> messages[m].senderId,
     recipientId |-> messages[m].recipientId, sessionId |-> messages[m].sessionId,
     createdAt |-> messages[m].createdAt]
\* const messageData = { id: message.id, content: message.content, ... }, built
\* from the row that message.create returned; no handler changes a Message row
MessageData(m) ==
    [id |-> m, content |-> messages[m].content, senderId |-> messages[m].senderId,
     recipientId |-> messages[m].recipientId, sessionId |-> messages[m].sessionId,
     createdAt |-> messages[m].createdAt]

\* io.to(socketId).emit(ev, messageData) / socket.emit(ev, messageData) of send t
MessageEvent(ev, c, t) ==
    [ToSocket(ev, c, sends[t].conn, t, sends[t].msg, NoUser, {}, "")
        EXCEPT !.data = MessageData(sends[t].msg)]

DeliveryEventsAckFirst(t, target) ==
    <<MessageEvent("message:sent", sends[t].conn, t)>>
    \o (IF target # NoConn
        THEN <<MessageEvent("message:receive", target, t)>>
        ELSE <<>>)
DeliveryEventsAckOnlyIfDelivered(t, target) ==
    IF target # NoConn
    THEN <<MessageEvent("message:receive", target, t),
           MessageEvent("message:sent", sends[t].conn, t)>>
    ELSE <<>>
DeliveryEventsTwice(t, target) ==
    (IF target # NoConn
     THEN <<MessageEvent("message:receive", target, t),
            MessageEvent("message:receive", target, t)>>
     ELSE <<>>)
    \o <<MessageEvent("message:sent", sends[t].conn, t)>>
DeliveryEventsBroadcast(t, target) ==
    (IF target # NoConn
     THEN <<[Event("message:receive", NoConn, OpenConns, sends[t].conn, t, sends[t].msg,
                   NoUser, {}, "") EXCEPT !.data = MessageData(sends[t].msg)]>>
     ELSE <<>>)
    \o <<MessageEvent("message:sent", sends[t].conn, t)>>
\* the emits after the update: message:receive if the registry names a socket,
\* then message:sent
DeliveryEvents(t, target) ==
    (IF target # NoConn
     THEN <<MessageEvent("message:receive", target, t)>>
     ELSE <<>>)
    \o <<MessageEvent("message:sent", sends[t].conn, t)>>

\* await prisma.chatSession.update(...); then the delivery and the acknowledgment
UpdateSession(t) ==
    /\ t \in DOMAIN sends
    /\ sends[t].pc = "updateSession"
    /\ chatSessions' = [chatSessions EXCEPT ![sends[t].session].updatedAt = sends[t].updTs]
    /\ LET target == onlineUsers[sends[t].rcpt]
       IN  /\ emitted' = emitted \o DeliveryEvents(t, target)
           /\ SetSend(t, [sends[t] EXCEPT !.pc = "done", !.outcome = "sent",
                                          !.lookup = target, !.delivering = TRUE])
    /\ UNCHANGED <<secret, sockets, onlineUsers, messages, now, faults, signals, requests, window, link>>

\* the awaited store call throws: the handler's catch
StoreFault(t) ==
    /\ t \in DOMAIN sends
    /\ sends[t].pc \in StorePcs
    /\ CanFault
    /\ faults' = faults + 1
    /\ Reject(t, "Failed to send message", "fault")
    /\ UNCHANGED <<secret, sockets, onlineUsers, chatSessions, messages, now, signals, requests, window, link>>


\* ------------------------------------------------ POST /api/sessions
relay == <<secret, sockets, onlineUsers, sends, emitted, signals>>

SetRequest(q, r) == requests' = [requests EXCEPT ![q] = r]

\* return NextResponse.json(..., { status })
Respond(q, status) == SetRequest(q, [requests[q] EXCEPT !.pc = "done", !.status = status])

\* A request record holds caller (session.user.id, NoUser when auth() gives no
\* user), other (body.otherUserId), session (chatSession.id) and the response
\* status; raced (the create threw P2002) and faulted record what happened.
\* The handler up to its first store call: auth(), the body, the self check:
PostSession(caller, other) ==
    /\ Len(requests) < MaxRequests
    /\ LET r == [route |-> "POST /api/sessions", pc |-> "done", caller |-> caller,
                 other |-> other, session |-> NoSession, status |-> 0, raced |-> FALSE,
                 faulted |-> FALSE]
       IN  requests' = Append(requests,
              IF caller = NoUser THEN [r EXCEPT !.status = 401]
              ELSE IF other = NoUser THEN [r EXCEPT !.status = 400]
              ELSE IF caller = other THEN [r EXCEPT !.status = 400]
              ELSE [r EXCEPT !.pc = "findCurrentUser"])
    /\ UNCHANGED <<relay, window, link, chatSessions, messages, now, faults>>

\* await prisma.user.findUnique({ where: { id: currentUserId } })
FindCurrentUser(q) ==
    /\ q \in DOMAIN requests
    /\ requests[q].pc = "findCurrentUser"
    /\ IF requests[q].caller \in Users
       THEN SetRequest(q, [requests[q] EXCEPT !.pc = "findOtherUser"])
       ELSE Respond(q, 404)
    /\ UNCHANGED <<relay, window, link, chatSessions, messages, now, faults>>

\* await prisma.user.findUnique({ where: { id: otherUserId } })
FindOtherUser(q) ==
    /\ q \in DOMAIN requests
    /\ requests[q].pc = "findOtherUser"
    /\ IF requests[q].other \in Users
       THEN SetRequest(q, [requests[q] EXCEPT !.pc = "findSession"])
       ELSE Respond(q, 404)
    /\ UNCHANGED <<relay, window, link, chatSessions, messages, now, faults>>

\* chatSession = await prisma.chatSession.findUnique({ where: { user1Id_user2Id } })
FindSession(q) ==
    /\ q \in DOMAIN requests
    /\ requests[q].pc = "findSession"
    /\ LET found == FindSessionByPair(SortPair(requests[q].caller, requests[q].other))
       IN  IF found # NoSession
           THEN SetRequest(q, [requests[q] EXCEPT !.pc = "done", !.status = 200,
                                                 !.session = found])
           ELSE SetRequest(q, [requests[q] EXCEPT !.pc = "createSession"])
    /\ UNCHANGED <<relay, window, link, chatSessions, messages, now, faults>>

\* what the catch around the create does with P2002
OnUniqueViolationThrow(r) == [r EXCEPT !.pc = "done", !.status = 500, !.raced = TRUE]
OnUniqueViolation(r) == [r EXCEPT !.pc = "refetch", !.raced = TRUE]

\* chatSession = await prisma.chatSession.create(...) inside its try
PostCreateSession(q, d) ==
    /\ q \in DOMAIN requests
    /\ requests[q].pc = "createSession"
    /\ now + d <= MaxClock
    /\ now' = now + d
    /\ LET p == SortPair(requests[q].caller, requests[q].other)
       IN  IF FindSessionByPair(p) # NoSession
           THEN /\ SetRequest(q, OnUniqueViolation(requests[q]))
                /\ UNCHANGED chatSessions
           ELSE /\ chatSessions' = Append(chatSessions, NewSession(p, FALSE, now'))
                /\ SetRequest(q, [requests[q] EXCEPT !.pc = "done", !.status = 200,
                                                      !.session = Len(chatSessions) + 1])
    /\ UNCHANGED <<relay, window, link, messages, faults>>

\* the findUnique in the catch; a null result is thrown on to the outer catch
Refetch(q) ==
    /\ q \in DOMAIN requests
    /\ requests[q].pc = "refetch"
    /\ LET found == FindSessionByPair(SortPair(requests[q].caller, requests[q].other))
       IN  IF found # NoSession
           THEN SetRequest(q, [requests[q] EXCEPT !.pc = "done", !.status = 200,
                                                 !.session = found])
           ELSE Respond(q, 500)
    /\ UNCHANGED <<relay, window, link, chatSessions, messages, now, faults>>

RequestStorePcs == {"findCurrentUser", "findOtherUser", "findSession", "createSession",
                    "refetch"}

\* the awaited store call throws: the outer catch answers 500
RequestFault(q) ==
    /\ q \in DOMAIN requests
    /\ requests[q].pc \in RequestStorePcs
    /\ CanFault
    /\ faults' = faults + 1
    /\ SetRequest(q, [requests[q] EXCEPT !.pc = "done", !.status = 500, !.faulted = TRUE])
    /\ UNCHANGED <<relay, window, link, chatSessions, messages, now>>

\* ------------------------------------------- GET /api/sessions/[id]
DefaultLimit == 50

SessionMessages(sid) == {i \in DOMAIN messages : messages[i].sessionId = sid}

\* orderBy: { createdAt: "asc" }: rows with equal createdAt come in any order
CreatedAtAsc(o) ==
    \A i, j \in DOMAIN o : i < j => messages[o[i]].createdAt <= messages[o[j]].createdAt

OrderedByCreatedAt(sid) ==
    LET S == SessionMessages(sid)
        n == Cardinality(S)
    IN  {o \in [1..n -> S] : (\A i, j \in 1..n : i # j => o[i] # o[j]) /\ CreatedAtAsc(o)}

SkipTakeFromPage(o, page, limit) ==
    LET skip == page * limit
        last == IF skip + limit < Len(o) THEN skip + limit ELSE Len(o)
    IN  SubSeq(o, skip + 1, last)
\* skip = (page - 1) * limit; take: limit
SkipTake(o, page, limit) ==
    LET skip == (page - 1) * limit
        last == IF skip + limit < Len(o) THEN skip + limit ELSE Len(o)
    IN  SubSeq(o, skip + 1, last)

\* the message lists a page fetch may return
PageFetch(sid, page, limit) == {SkipTake(o, page, limit) : o \in OrderedByCreatedAt(sid)}

\* a query parameter that is absent: searchParams.get gives null
NoParam == 0
\* parseInt(searchParams.get("page") || "1")
ParsePage(param) == IF param = NoParam THEN 1 ELSE param
\* parseInt(searchParams.get("limit") || "50")
ParseLimit(param) == IF param = NoParam THEN DefaultLimit ELSE param

\* Math.ceil(totalMessages / limit), for limit > 0
CeilDiv(total, limit) == (total + limit - 1) \div limit

MaxFetches == 1
MaxPageRequests == 3
PageRequestIds == 1..MaxPageRequests
MaxPage == 3
MaxLimit == 2
PageParams == {NoParam} \cup 1..MaxPage
LimitParams == {NoParam} \cup 1..MaxLimit

IsParticipantAnyone(userId, found) == TRUE
\* chatSession.user1Id !== userId && chatSession.user2Id !== userId, negated
IsParticipant(userId, found) ==
    userId \in {chatSessions[found].user1Id, chatSessions[found].user2Id}

\* A GET request record holds caller (session.user.id), id (params.id), page and
\* limit as parsed, msgs (chatSession.messages), total and totalPages and the
\* response status; seen and counted are the sizes of the Message table when the
\* two queries ran.
\* GET /api/sessions/[id] up to its first store call:
GetSession(caller, id, pageParam, limitParam) ==
    /\ Len(requests) < MaxPageRequests
    /\ LET r == [route |-> "GET /api/sessions/[id]", pc |-> "getFind", caller |-> caller,
                 id |-> id, page |-> ParsePage(pageParam), limit |-> ParseLimit(limitParam),
                 msgs |-> <<>>, seen |-> 0, total |-> 0, counted |-> 0, totalPages |-> 0,
                 status |-> 0]
       IN  requests' = Append(requests,
              IF caller = NoUser THEN [r EXCEPT !.pc = "done", !.status = 401] ELSE r)
    /\ UNCHANGED <<relay, window, link, chatSessions, messages, now, faults>>

\* chatSession = await prisma.chatSession.findUnique({ where: { id }, include:
\* { messages: { orderBy, skip, take } } }), then the 404 and 403 checks
GetFind(q) ==
    /\ q \in DOMAIN requests
    /\ requests[q].pc = "getFind"
    /\ LET r == requests[q]
           found == FindSessionById(r.id)
       IN  IF found = NoSession
           THEN Respond(q, 404)
           ELSE IF ~IsParticipant(r.caller, found)
           THEN Respond(q, 403)
           ELSE \E pg \in PageFetch(found, r.page, r.limit) :
                   SetRequest(q, [r EXCEPT !.pc = "getCount", !.msgs = pg,
                                           !.seen = Len(messages)])
    /\ UNCHANGED <<relay, window, link, chatSessions, messages, now, faults>>

\* totalMessages = await prisma.message.count({ where: { sessionId: id } }), then
\* the response
GetCount(q) ==
    /\ q \in DOMAIN requests
    /\ requests[q].pc = "getCount"
    /\ LET total == Cardinality(SessionMessages(requests[q].id))
       IN  SetRequest(q, [requests[q] EXCEPT !.pc = "done", !.status = 200,
                                             !.total = total, !.counted = Len(messages),
                                             !.totalPages = CeilDiv(total, requests[q].limit)])
    /\ UNCHANGED <<relay, window, link, chatSessions, messages, now, faults>>

\* ------------------------------------------------- GET /api/messages
\* A GET /api/messages record holds caller (session.user.id, NoUser without a
\* login), id (the sessionId parameter, NoSession when it is missing), msgs (the
\* list in the response) and the status.  The handler up to its first store call:
GetMessages(caller, id) ==
    /\ Len(requests) < MaxPageRequests
    /\ LET r == [route |-> "GET /api/messages", pc |-> "gmFind", caller |-> caller,
                 id |-> id, msgs |-> <<>>, status |-> 0]
       IN  requests' = Append(requests,
              IF caller = NoUser THEN [r EXCEPT !.pc = "done", !.status = 401]
              ELSE IF id = NoSession THEN [r EXCEPT !.pc = "done", !.status = 400]
              ELSE r)
    /\ UNCHANGED <<relay, window, link, chatSessions, messages, now, faults>>

\* chatSession = await prisma.chatSession.findUnique({ where: { id: sessionId } }),
\* then the 404 and 403 checks
GmFind(q) ==
    /\ q \in DOMAIN requests
    /\ requests[q].pc = "gmFind"
    /\ LET found == FindSessionById(requests[q].id)
       IN  IF found = NoSession
           THEN Respond(q, 404)
           ELSE IF ~IsParticipant(requests[q].caller, found)
           THEN Respond(q, 403)
           ELSE SetRequest(q, [requests[q] EXCEPT !.pc = "gmFindMany"])
    /\ UNCHANGED <<relay, window, link, chatSessions, messages, now, faults>>

\* messages = await prisma.message.findMany({ where: { sessionId }, orderBy:
\* { createdAt: "asc" } }), then the response
GmFindMany(q) ==
    /\ q \in DOMAIN requests
    /\ requests[q].pc = "gmFindMany"
    /\ \E o \in OrderedByCreatedAt(requests[q].id) :
          SetRequest(q, [requests[q] EXCEPT !.pc = "done", !.status = 200, !.msgs = o])
    /\ UNCHANGED <<relay, window, link, chatSessions, messages, now, faults>>

\* ------------------------------------------------ POST /api/messages
MaxPosts == 1
\* the bodies of POST /api/messages: <<content, recipientId, sessionId>>
PostMessageInputs ==
    {<<"hi", r, sid>> : r \in Users, sid \in {1, 2, UnknownSession}}
    \cup {<<"", 1, 1>>, <<"hi", NoUser, 1>>, <<"hi", 1, NoSession>>}

\* A POST /api/messages record holds caller (senderId), the body (content, rcpt,
\* id), msg (message.id), updTs (the new Date() of the update) and the status.
\* The handler up to its first store call:
PostMessage(caller, content, rcpt, id) ==
    /\ Len(requests) < MaxPageRequests
    /\ Cardinality({q \in DOMAIN requests : requests[q].route = "POST /api/messages"})
          < MaxPosts
    /\ LET r == [route |-> "POST /api/messages", pc |-> "done", caller |-> caller,
                 content |-> content, rcpt |-> rcpt, id |-> id, msg |-> NoMsg, updTs |-> 0,
                 status |-> 0]
       IN  requests' = Append(requests,
              IF caller = NoUser THEN [r EXCEPT !.status = 401]
              ELSE IF content = "" \/ rcpt = NoUser \/ id = NoSession
              THEN [r EXCEPT !.status = 400]
              ELSE [r EXCEPT !.pc = "pmFind"])
    /\ UNCHANGED <<relay, window, link, chatSessions, messages, now, faults>>

\* chatSession = await prisma.chatSession.findUnique({ where: { id: sessionId } }),
\* then the checks of the sender and of the recipient
PmFind(q) ==
    /\ q \in DOMAIN requests
    /\ requests[q].pc = "pmFind"
    /\ LET r == requests[q]
           found == FindSessionById(r.id)
       IN  IF found = NoSession
           THEN Respond(q, 404)
           ELSE IF r.caller \notin {chatSessions[found].user1Id, chatSessions[found].user2Id}
           THEN Respond(q, 403)
           ELSE IF r.rcpt \notin {chatSessions[found].user1Id, chatSessions[found].user2Id}
           THEN Respond(q, 400)
           ELSE SetRequest(q, [r EXCEPT !.pc = "pmCreate"])
    /\ UNCHANGED <<relay, window, link, chatSessions, messages, now, faults>>

\* message = await prisma.message.create(...); then new Date() for the update
PmCreate(q, d) ==
    /\ q \in DOMAIN requests
    /\ requests[q].pc = "pmCreate"
    /\ now + d <= MaxClock
    /\ now' = now + d
    /\ messages' = Append(messages,
          NewMessage(requests[q].content, requests[q].caller, requests[q].rcpt,
                     requests[q].id, FALSE, now'))
    /\ SetRequest(q, [requests[q] EXCEPT !.pc = "pmUpdate", !.msg = Len(messages) + 1,
                                         !.updTs = now'])
    /\ UNCHANGED <<relay, window, link, chatSessions, faults>>

PmUpdateReassigning(q) ==
    /\ q \in DOMAIN requests
    /\ requests[q].pc = "pmUpdate"
    /\ chatSessions' = [chatSessions EXCEPT ![requests[q].id].updatedAt = requests[q].updTs,
                                            ![requests[q].id].user2Id = requests[q].rcpt]
    /\ Respond(q, 201)
    /\ UNCHANGED <<relay, window, link, messages, now, faults>>
\* await prisma.chatSession.update(...); then the 201 response
PmUpdate(q) ==
    /\ q \in DOMAIN requests
    /\ requests[q].pc = "pmUpdate"
    /\ chatSessions' = [chatSessions EXCEPT ![requests[q].id].updatedAt = requests[q].updTs]
    /\ Respond(q, 201)
    /\ UNCHANGED <<relay, window, link, messages, now, faults>>

\* ------------------------------------------------ the chat window (client)
\* One browser tab of user Me with the conversation with Peer open. The repository
\* holds two ChatWindow components: components/ChatWindow.tsx and
\* components/chat/ChatWindow.tsx, the one the chat page mounts.
ComponentsChatWindow == "components/ChatWindow.tsx"
ChatChatWindow == "components/chat/ChatWindow.tsx"
Components == {ComponentsChatWindow, ChatChatWindow}

Me == 1
Peer == 2
\* the id POST /api/sessions returned to loadChatSession
OpenSession == 1

MaxClientSends == 2
MaxRows == 4
MaxReconnects == 1
MaxRetries == 1
\* the page size of the client's fetches (limit=50 in the URLs), scaled down
ClientLimit == 2

\* message ids as the client sees them
NoId == [tag |-> "none", n |-> 0]
\* `temp-${Date.now()}` of the k-th send of the tab
TempId(k) == [tag |-> "temp", n |-> k]
\* `failed-${tempId}`
FailedId(id) == [tag |-> "failed-temp", n |-> id.n]
\* message.id.startsWith("failed-")
IsFailed(id) == id.tag = "failed-temp"
\* the id of a Message row
RowId(m) == [tag |-> "row", n |-> m]

\* a message as the server sends it to a client
Wire(m) == [id |-> RowId(m), content |-> messages[m].content]
\* reconnectTimeoutRef.current = null
NoTimeout == 0
\* a fetch that is not in flight
NoFetch == [page |-> 0, msgs |-> <<>>, totalPages |-> 0]

NoWindow ==
    [component |-> ComponentsChatWindow, messages |-> <<>>, inputValue |-> "",
     sending |-> FALSE, error |-> FALSE, failedMessageId |-> NoId, hasMore |-> FALSE,
     loadingMore |-> FALSE, currentPage |-> 1, tempIds |-> 0, awaiting |-> 0,
     messageContent |-> "", more |-> NoFetch, sync |-> NoFetch, retries |-> 0,
     selectedUser |-> NoUser, currentUserId |-> NoUser, sessionId |-> NoSession,
     loads |-> <<>>]

\* out: the message:send events on their way to the relay; in: the events on their
\* way to the tab; onSent, onError: the sends whose message:sent and message:error
\* listeners are registered; timers: the sends whose 5 s timeout is armed
\* reconnectAttempts, reconnectTimeout (the delay of the armed timer, NoTimeout for
\* none) and isConnected are the state of useSocket; log lists its connects and the
\* reconnect timers it armed, in order
NoLink == [out |-> <<>>, in |-> <<>>, onSent |-> {}, onError |-> {}, timers |-> {},
           connects |-> 0, reconnectAttempts |-> 0, reconnectTimeout |-> NoTimeout,
           isConnected |-> FALSE, log |-> <<>>]

\* the answer of GET /api/sessions/[id]?page=..&limit=.. for the open session
FetchAnswers(page) ==
    {[page |-> page, msgs |-> [i \in DOMAIN pg |-> Wire(pg[i])],
      totalPages |-> CeilDiv(Cardinality(SessionMessages(OpenSession)), ClientLimit)] :
        pg \in PageFetch(OpenSession, page, ClientLimit)}

\* prev.map((msg) => (test(msg.id) ? to(msg) : msg))
MapMessages(list, S, data) ==
    [i \in DOMAIN list |-> IF list[i].id \in S THEN data ELSE list[i]]
Rename(list, id, newId) ==
    [i \in DOMAIN list |-> IF list[i].id = id THEN [list[i] EXCEPT !.id = newId] ELSE list[i]]
\* prev.filter((msg) => msg.id !== id)
RECURSIVE Without(_, _)
Without(list, id) ==
    IF list = <<>> THEN <<>>
    ELSE IF Head(list).id = id THEN Without(Tail(list), id)
    ELSE <<Head(list)>> \o Without(Tail(list), id)

Ids(list) == {list[i].id : i \in DOMAIN list}

\* handleInputChange: setInputValue(value); the input is disabled while sending
HandleInputChange(value) ==
    /\ window.component \in Components
    /\ ~window.sending
    /\ window.inputValue # value
    /\ window' = [window EXCEPT !.inputValue = value]
    /\ UNCHANGED <<secret, sockets, onlineUsers, chatSessions, messages, sends, emitted, now,
                   faults, signals, requests, link>>

\* handleSendMessage up to the await of the acknowledgment: the optimistic
\* message, the emit, the timeout and the two listeners
HandleSendMessage ==
    /\ window.component \in Components
    /\ window.inputValue # ""
    /\ ~window.sending
    /\ window.tempIds < MaxClientSends
    /\ LET k == window.tempIds + 1
           content == window.inputValue
       IN  /\ window' = [window EXCEPT
                  !.tempIds = k,
                  !.messages = Append(@, [id |-> TempId(k), content |-> content]),
                  !.inputValue = "",
                  !.sending = TRUE,
                  !.error = FALSE,
                  !.failedMessageId = NoId,
                  !.awaiting = k,
                  !.messageContent = content]
           /\ link' = [link EXCEPT
                  !.out = Append(@, [send |-> k, content |-> content]),
                  !.timers = @ \cup {k},
                  !.onSent = @ \cup {k},
                  !.onError = @ \cup {k}]
    /\ UNCHANGED <<secret, sockets, onlineUsers, chatSessions, messages, sends, emitted, now,
                   faults, signals, requests>>

\* the catch and finally blocks of handleSendMessage for the send k
CatchRemoving(w, k) ==
    [w EXCEPT !.messages = Without(@, TempId(k)),
              !.inputValue = w.messageContent,
              !.sending = FALSE,
              !.awaiting = 0]
Catch(w, k) ==
    IF w.component = ComponentsChatWindow
    THEN [w EXCEPT !.error = TRUE,
                   !.failedMessageId = TempId(k),
                   !.messages = Rename(@, TempId(k), FailedId(TempId(k))),
                   !.sending = FALSE,
                   !.awaiting = 0]
    ELSE CatchRemoving(w, k)

\* the relay handles the oldest message:send of the tab: it stores the message and
\* acknowledges it, or it answers message:error; send names the message:send an
\* event answers, which the payload on the wire does not carry
RelayMessageSend(ok) ==
    /\ link.out # <<>>
    /\ link' = [link EXCEPT
          !.out = Tail(@),
          !.in = Append(@, IF ok THEN [ev |-> "message:sent", send |-> Head(link.out).send,
                                        data |-> [id |-> RowId(Len(messages) + 1),
                                                  content |-> Head(link.out).content]]
                           ELSE [ev |-> "message:error", send |-> Head(link.out).send,
                                 data |-> [id |-> NoId, content |-> ""]])]
    /\ IF ok
       THEN /\ Len(messages) < MaxRows
            /\ now' = now + 1
            /\ messages' = Append(messages,
                  NewMessage(Head(link.out).content, Me, Peer, OpenSession, FALSE, now'))
       ELSE UNCHANGED <<messages, now>>
    /\ UNCHANGED <<secret, sockets, onlineUsers, chatSessions, sends, emitted, faults, signals,
                   requests, window>>

\* the peer sends a message in the open session and the relay delivers it
PeerMessage ==
    /\ window.component \in Components
    /\ Len(messages) < MaxRows
    /\ now' = now + 1
    /\ messages' = Append(messages, NewMessage("yo", Peer, Me, OpenSession, FALSE, now'))
    /\ link' = [link EXCEPT !.in = Append(@, [ev |-> "message:receive", send |-> 0,
                                               data |-> [id |-> RowId(Len(messages) + 1),
                                                         content |-> "yo"]])]
    /\ UNCHANGED <<secret, sockets, onlineUsers, chatSessions, sends, emitted, faults, signals,
                   requests, window>>

\* message:sent reaches the tab: every registered listener runs with its payload
OnMessageSent ==
    /\ link.in # <<>>
    /\ Head(link.in).ev = "message:sent"
    /\ LET fired == link.onSent
           data == Head(link.in).data
       IN  /\ window' = [window EXCEPT
                  !.messages = MapMessages(@, {TempId(k) : k \in fired}, data),
                  !.sending = IF window.awaiting \in fired THEN FALSE ELSE @,
                  !.awaiting = IF window.awaiting \in fired THEN 0 ELSE @]
           /\ link' = [link EXCEPT
                  !.in = Tail(@),
                  !.timers = @ \ fired,
                  !.onSent = {},
                  !.onError = IF window.component = ChatChatWindow THEN @ \ fired ELSE @]
    /\ UNCHANGED <<secret, sockets, onlineUsers, chatSessions, messages, sends, emitted, now,
                   faults, signals, requests>>

\* message:error reaches the tab
OnMessageError ==
    /\ link.in # <<>>
    /\ Head(link.in).ev = "message:error"
    /\ LET fired == link.onError
       IN  /\ window' = IF window.awaiting \in fired
                        THEN Catch(window, window.awaiting) ELSE window
           /\ link' = [link EXCEPT
                  !.in = Tail(@),
                  !.timers = @ \ fired,
                  !.onError = {},
                  !.onSent = IF window.component = ChatChatWindow THEN @ \ fired ELSE @]
    /\ UNCHANGED <<secret, sockets, onlineUsers, chatSessions, messages, sends, emitted, now,
                   faults, signals, requests>>

\* setTimeout(() => reject(new Error("Message send timeout")), 5000) fires
SendTimeout(k) ==
    /\ k \in link.timers
    /\ window' = IF window.awaiting = k THEN Catch(window, k) ELSE window
    /\ link' = [link EXCEPT !.timers = @ \ {k}]
    /\ UNCHANGED <<secret, sockets, onlineUsers, chatSessions, messages, sends, emitted, now,
                   faults, signals, requests>>

\* handleRetry of components/ChatWindow.tsx; its button shows while
\* error && failedMessageId
HandleRetry ==
    /\ window.component = ComponentsChatWindow
    /\ window.error
    /\ window.failedMessageId # NoId
    /\ window.retries < MaxRetries
    /\ LET hit == {i \in DOMAIN window.messages :
                      window.messages[i].id = window.failedMessageId}
       IN  window' =
              IF hit = {}
              THEN [window EXCEPT !.retries = @ + 1]
              ELSE [window EXCEPT
                       !.retries = @ + 1,
                       !.messages = Without(@, window.failedMessageId),
                       !.inputValue = window.messages[CHOOSE i \in hit :
                                                         \A j \in hit : i <= j].content,
                       !.failedMessageId = NoId]
    /\ UNCHANGED <<secret, sockets, onlineUsers, chatSessions, messages, sends, emitted, now,
                   faults, signals, requests, link>>

\* the message:receive listener: the message is appended unless its id is listed
OnMessageReceive ==
    /\ link.in # <<>>
    /\ Head(link.in).ev = "message:receive"
    /\ LET data == Head(link.in).data
       IN  window' = [window EXCEPT
              !.messages = IF data.id \in Ids(@) THEN @ ELSE Append(@, data)]
    /\ link' = [link EXCEPT !.in = Tail(@)]
    /\ UNCHANGED <<secret, sockets, onlineUsers, chatSessions, messages, sends, emitted, now,
                   faults, signals, requests>>

\* the socket reconnects and the connect listener of components/ChatWindow.tsx
\* fetches page 1
OnConnect ==
    /\ window.component = ComponentsChatWindow
    /\ link.connects < MaxReconnects
    /\ window.sync = NoFetch
    /\ link' = [link EXCEPT !.connects = @ + 1]
    /\ \E a \in FetchAnswers(1) : window' = [window EXCEPT !.sync = a]
    /\ UNCHANGED <<secret, sockets, onlineUsers, chatSessions, messages, sends, emitted, now,
                   faults, signals, requests>>

\* the answer of the re-sync arrives: setMessages(data.messages), setHasMore
OnConnectSynced ==
    /\ window.sync # NoFetch
    /\ window' = [window EXCEPT
          !.messages = window.sync.msgs,
          !.hasMore = window.sync.page < window.sync.totalPages,
          !.sync = NoFetch]
    /\ UNCHANGED <<secret, sockets, onlineUsers, chatSessions, messages, sends, emitted, now,
                   faults, signals, requests, link>>

\* loadMoreMessages up to its fetch of page currentPage + 1
LoadMoreMessages ==
    /\ window.component = ComponentsChatWindow
    /\ window.hasMore
    /\ ~window.loadingMore
    /\ \E a \in FetchAnswers(window.currentPage + 1) :
          window' = [window EXCEPT !.loadingMore = TRUE, !.more = a]
    /\ UNCHANGED <<secret, sockets, onlineUsers, chatSessions, messages, sends, emitted, now,
                   faults, signals, requests, link>>

\* the page arrives: it is put in front of the list
LoadMoreLoaded ==
    /\ window.loadingMore
    /\ window' = [window EXCEPT
          !.messages = window.more.msgs \o @,
          !.currentPage = window.more.page,
          !.hasMore = window.more.page < window.more.totalPages,
          !.loadingMore = FALSE,
          !.more = NoFetch]
    /\ UNCHANGED <<secret, sockets, onlineUsers, chatSessions, messages, sends, emitted, now,
                   faults, signals, requests, link>>

Init ==
    /\ secret = TRUE
    /\ sockets = <<>>
    /\ onlineUsers = [u \in Users |-> NoConn]
    /\ chatSessions = <<>>
    /\ messages = <<>>
    /\ sends = <<>>
    /\ emitted = <<>>
    /\ now = 0
    /\ faults = 0
    /\ signals = <<>>
    /\ requests = <<>>
    /\ window = NoWindow
    /\ link = NoLink

Next ==
    \/ \E token \in ValidTokens : Connect(token)
    \/ \E c \in ConnIds : Disconnect(c)
    \/ \E c \in ConnIds, p \in SendInputs : IssueSend(c, p[1], p[2], p[3])
    \/ \E t \in SendIds : FindById(t)
    \/ \E t \in SendIds : FindByPair(t)
    \/ \E t \in SendIds, d \in Elapsed : CreateSession(t, d)
    \/ \E t \in SendIds, d \in Elapsed : CreateMsg(t, d)
    \/ \E t \in SendIds : UpdateSession(t)
    \/ \E t \in SendIds : StoreFault(t)

Spec == Init /\ [][Next]_vars

\* the gateway: every kind of handshake, with the secret set or unset, the
\* presence and typing events, and one message:send
InitGateway ==
    /\ secret \in BOOLEAN
    /\ sockets = <<>>
    /\ onlineUsers = [u \in Users |-> NoConn]
    /\ chatSessions = <<>>
    /\ messages = <<>>
    /\ sends = <<>>
    /\ emitted = <<>>
    /\ now = 0
    /\ faults = 0
    /\ signals = <<>>
    /\ requests = <<>>
    /\ window = NoWindow
    /\ link = NoLink

GatewaySends == 1

NextGateway ==
    \/ \E token \in Tokens : Connect(token)
    \/ \E c \in ConnIds : Disconnect(c)
    \/ \E c \in ConnIds : StatusRequest(c)
    \/ \E c \in ConnIds, ev \in TypingEvents, rcpt \in Users \cup {NoUser},
          sid \in {NoSession, UnknownSession} : Typing(c, ev, rcpt, sid)
    \/ \E c \in ConnIds, p \in SendInputs :
          Len(sends) < GatewaySends /\ IssueSend(c, p[1], p[2], p[3])
    \/ \E t \in SendIds : FindById(t)
    \/ \E t \in SendIds : FindByPair(t)
    \/ \E t \in SendIds, d \in Elapsed : CreateSession(t, d)
    \/ \E t \in SendIds, d \in Elapsed : CreateMsg(t, d)
    \/ \E t \in SendIds : UpdateSession(t)
    \/ \E t \in SendIds : StoreFault(t)

SpecGateway == InitGateway /\ [][NextGateway]_vars

\* the session route: concurrent POST /api/sessions requests
NextSessions ==
    \/ \E caller \in Users \cup {NoUser}, other \in Users \cup {NoUser, UnknownUser} :
          PostSession(caller, other)
    \/ \E q \in RequestIds : FindCurrentUser(q)
    \/ \E q \in RequestIds : FindOtherUser(q)
    \/ \E q \in RequestIds : FindSession(q)
    \/ \E q \in RequestIds, d \in Elapsed : PostCreateSession(q, d)
    \/ \E q \in RequestIds : Refetch(q)
    \/ \E q \in RequestIds : RequestFault(q)

SpecSessions == Init /\ [][NextSessions]_vars

\* the two resolvers of the session of a pair side by side: message:send without
\* sessionId on the relay and POST /api/sessions, over the one store
ResolveInputs == {<<r, "hi", NoSession>> : r \in Users}
\* the resolutions, of both kinds together, that are started
ResolveOps == 2

NextResolve ==
    \/ \E token \in ValidTokens : Connect(token)
    \/ \E c \in ConnIds, p \in ResolveInputs :
          Len(sends) + Len(requests) < ResolveOps /\ IssueSend(c, p[1], p[2], p[3])
    \/ \E t \in SendIds : FindByPair(t)
    \/ \E t \in SendIds, d \in Elapsed : CreateSession(t, d)
    \/ \E t \in SendIds, d \in Elapsed : CreateMsg(t, d)
    \/ \E t \in SendIds : UpdateSession(t)
    \/ \E caller \in Users, other \in Users :
          Len(sends) + Len(requests) < ResolveOps /\ PostSession(caller, other)
    \/ \E q \in RequestIds : FindCurrentUser(q)
    \/ \E q \in RequestIds : FindOtherUser(q)
    \/ \E q \in RequestIds : FindSession(q)
    \/ \E q \in RequestIds, d \in Elapsed : PostCreateSession(q, d)
    \/ \E q \in RequestIds : Refetch(q)

SpecResolve == Init /\ [][NextResolve]_vars

\* the message routes over a store that already holds two sessions and some
\* messages: GET /api/sessions/[id] beside POST /api/messages
MaxStored == 3

\* the Message table after n inserts: createdAt follows the clock, so it does not
\* decrease from one insert to the next
StoredRows(n) ==
    {f \in [1..n -> [sessionId : {1, 2}, createdAt : 0..MaxClock]] :
        \A i, j \in 1..n : i < j => f[i].createdAt <= f[j].createdAt}

InitPages ==
    /\ secret = TRUE
    /\ sockets = <<>>
    /\ onlineUsers = [u \in Users |-> NoConn]
    /\ chatSessions = <<NewSession(<<1, 2>>, FALSE, 0), NewSession(<<1, 1>>, FALSE, 0)>>
    /\ \E n \in 0..MaxStored : \E f \in StoredRows(n) :
          /\ messages = [i \in 1..n |->
                NewMessage("hi", 1, chatSessions[f[i].sessionId].user2Id, f[i].sessionId,
                           FALSE, f[i].createdAt)]
          /\ now = IF n = 0 THEN 0 ELSE f[n].createdAt
    /\ sends = <<>>
    /\ emitted = <<>>
    /\ faults = 0
    /\ signals = <<>>
    /\ requests = <<>>
    /\ window = NoWindow
    /\ link = NoLink

\* the GET /api/sessions/[id] requests made so far
Fetches == {q \in DOMAIN requests : requests[q].route = "GET /api/sessions/[id]"}

NextPages ==
    \/ \E caller \in Users \cup {NoUser}, id \in {1, 2, UnknownSession},
          pageParam \in PageParams, limitParam \in LimitParams :
          Cardinality(Fetches) < MaxFetches /\ GetSession(caller, id, pageParam, limitParam)
    \/ \E q \in PageRequestIds : GetFind(q)
    \/ \E q \in PageRequestIds : GetCount(q)
    \/ \E caller \in Users \cup {NoUser}, b \in PostMessageInputs :
          PostMessage(caller, b[1], b[2], b[3])
    \/ \E q \in PageRequestIds : PmFind(q)
    \/ \E q \in PageRequestIds, d \in Elapsed : PmCreate(q, d)
    \/ \E q \in PageRequestIds : PmUpdate(q)

SpecPages == InitPages /\ [][NextPages]_vars

\* the two routes that read messages, with every caller, over a store of two
\* sessions: user 2 is a participant of session 1 and not of session 2
InitRead ==
    /\ secret = TRUE
    /\ sockets = <<>>
    /\ onlineUsers = [u \in Users |-> NoConn]
    /\ chatSessions = <<NewSession(<<1, 2>>, FALSE, 0), NewSession(<<1, 1>>, FALSE, 0)>>
    /\ \E n \in 0..MaxStored :
          /\ messages = [i \in 1..n |->
                NewMessage("hi", 1, chatSessions[2 - (i % 2)].user2Id, 2 - (i % 2), FALSE, i)]
          /\ now = n
    /\ sends = <<>>
    /\ emitted = <<>>
    /\ faults = 0
    /\ signals = <<>>
    /\ requests = <<>>
    /\ window = NoWindow
    /\ link = NoLink

NextRead ==
    \/ \E caller \in Users \cup {NoUser}, id \in {1, 2, UnknownSession},
          pageParam \in {NoParam, 2} :
          GetSession(caller, id, pageParam, NoParam)
    \/ \E q \in PageRequestIds : GetFind(q)
    \/ \E q \in PageRequestIds : GetCount(q)
    \/ \E caller \in Users \cup {NoUser}, id \in {NoSession, 1, 2, UnknownSession} :
          GetMessages(caller, id)
    \/ \E q \in PageRequestIds : GmFind(q)
    \/ \E q \in PageRequestIds : GmFindMany(q)

SpecRead == InitRead /\ [][NextRead]_vars

\* one participant fetching the same page of one session again while a message is
\* posted to it
MaxRefetches == 2

NextRefetch ==
    \/ \E page \in 1..MaxPage, limit \in 1..MaxLimit :
          /\ Cardinality(Fetches) < MaxRefetches
          /\ \A q \in Fetches : requests[q].page = page /\ requests[q].limit = limit
          /\ GetSession(1, 1, page, limit)
    \/ \E q \in PageRequestIds : GetFind(q)
    \/ \E q \in PageRequestIds : GetCount(q)
    \/ \E caller \in {1}, b \in {<<"hi", 2, 1>>} : PostMessage(caller, b[1], b[2], b[3])
    \/ \E q \in PageRequestIds : PmFind(q)
    \/ \E q \in PageRequestIds, d \in Elapsed : PmCreate(q, d)
    \/ \E q \in PageRequestIds : PmUpdate(q)

SpecRefetch == InitPages /\ [][NextRefetch]_vars

\* ------------------------------------------------ useSocket (lib/socket)
BaseDelay == 1000
MaxDelay == 30000
MaxHookEvents == 9

\* Math.min(baseDelay * Math.pow(2, reconnectAttempts.current), maxDelay)
GetReconnectDelayUncapped(attempts) == BaseDelay * 2 ^ attempts
GetReconnectDelay(attempts) ==
    IF BaseDelay * 2 ^ attempts < MaxDelay THEN BaseDelay * 2 ^ attempts ELSE MaxDelay

\* attemptReconnect: nothing while a timer is armed; else the delay is read, the
\* counter is incremented and the timer is armed
AttemptReconnect(l) ==
    IF l.reconnectTimeout # NoTimeout THEN l
    ELSE [l EXCEPT !.reconnectTimeout = GetReconnectDelay(l.reconnectAttempts),
                   !.reconnectAttempts = @ + 1,
                   !.log = Append(@, [ev |-> "reconnect",
                                      delay |-> GetReconnectDelay(l.reconnectAttempts)])]

\* socketInstance.on("connect")
OnSocketConnect ==
    /\ ~link.isConnected
    /\ Len(link.log) < MaxHookEvents
    /\ link' = [link EXCEPT !.isConnected = TRUE,
                            !.reconnectAttempts = 0,
                            !.log = Append(@, [ev |-> "connect", delay |-> 0])]
    /\ UNCHANGED <<secret, sockets, onlineUsers, chatSessions, messages, sends, emitted, now,
                   faults, signals, requests, window>>

\* socketInstance.on("disconnect"): only a disconnect by the server is followed by
\* attemptReconnect, any other is left to the socket's own reconnection
OnSocketDisconnect(reason) ==
    /\ link.isConnected
    /\ Len(link.log) < MaxHookEvents
    /\ link' = IF reason = "io server disconnect"
               THEN AttemptReconnect([link EXCEPT !.isConnected = FALSE])
               ELSE [link EXCEPT !.isConnected = FALSE]
    /\ UNCHANGED <<secret, sockets, onlineUsers, chatSessions, messages, sends, emitted, now,
                   faults, signals, requests, window>>

\* socketInstance.on("connect_error"), and the catch of connect
OnConnectError ==
    /\ ~link.isConnected
    /\ Len(link.log) < MaxHookEvents
    /\ link' = AttemptReconnect(link)
    /\ UNCHANGED <<secret, sockets, onlineUsers, chatSessions, messages, sends, emitted, now,
                   faults, signals, requests, window>>

\* the reconnect timer fires: reconnectTimeoutRef.current = null; connect()
ReconnectTimeout ==
    /\ link.reconnectTimeout # NoTimeout
    /\ link' = [link EXCEPT !.reconnectTimeout = NoTimeout]
    /\ UNCHANGED <<secret, sockets, onlineUsers, chatSessions, messages, sends, emitted, now,
                   faults, signals, requests, window>>

NextHook ==
    \/ OnSocketConnect
    \/ \E reason \in {"io server disconnect", "transport close"} : OnSocketDisconnect(reason)
    \/ OnConnectError
    \/ ReconnectTimeout

SpecHook == Init /\ [][NextHook]_vars

\* ------------------------------------------------ POST /api/ai/chat
\* the user with the email AI_BOT_EMAIL
AiBot == 2
HistoryTake == 10
MaxHistoryRows == 11
MaxAiRequests == 1
AiRequestIds == 1..MaxAiRequests

\* the rows S by createdAt ascending; rows with equal createdAt (SpecAi has none)
\* are put in the order of their insertion
RECURSIVE AscByCreatedAt(_)
AscByCreatedAt(S) ==
    IF S = {} THEN <<>>
    ELSE LET first == CHOOSE m \in S : \A x \in S :
                          \/ messages[m].createdAt < messages[x].createdAt
                          \/ messages[m].createdAt = messages[x].createdAt /\ m <= x
         IN  <<first>> \o AscByCreatedAt(S \ {first})

\* messages: { orderBy: { createdAt: 'asc' }, take: 10 }
TakeHistory(o) == SubSeq(o, 1, IF Len(o) < HistoryTake THEN Len(o) ELSE HistoryTake)
IncludedMessages(sid) == TakeHistory(AscByCreatedAt(SessionMessages(sid)))

\* the providers in the order sendMessageToAI tries them
Providers == <<"openai", "huggingface">>
\* the next provider whose key is set and that has not been tried; "pattern" (the
\* pattern-based response) when none is left
NextProvider(keys, calls) ==
    LET left == {i \in DOMAIN Providers :
                    Providers[i] \in keys /\ \A c \in DOMAIN calls : calls[c] # Providers[i]}
    IN  IF left = {} THEN "pattern" ELSE Providers[CHOOSE i \in left : \A j \in left : i <= j]

\* An AI chat record holds caller, message and id (body.sessionId), keys (the
\* provider keys of the environment), session, msgs (chatSession.messages), seen
\* (the size of the Message table when they were read), history
\* (conversationHistory, as message ids), calls (the providers called, in order),
\* provider (the one that answered) and the status.
\* The handler up to its first store call on sessions:
AiChat(caller, message, id, keys) ==
    /\ Len(requests) < MaxAiRequests
    /\ LET r == [route |-> "POST /api/ai/chat", pc |-> "done", caller |-> caller,
                 message |-> message, id |-> id, keys |-> keys, session |-> NoSession,
                 msgs |-> <<>>, seen |-> 0, history |-> <<>>, calls |-> <<>>,
                 provider |-> "", status |-> 0]
       IN  requests' = Append(requests,
              IF caller = NoUser THEN [r EXCEPT !.status = 401]
              ELSE IF keys = {} THEN [r EXCEPT !.status = 503]
              ELSE IF message = "" THEN [r EXCEPT !.status = 400]
              ELSE [r EXCEPT !.pc = "aiFind"])
    /\ UNCHANGED <<relay, window, link, chatSessions, messages, now, faults>>

\* chatSession = findUnique by id, else by the sorted pair, else create; each with
\* its messages included
AiFind(q, d) ==
    /\ q \in DOMAIN requests
    /\ requests[q].pc = "aiFind"
    /\ LET r == requests[q]
           byId == IF r.id = NoSession THEN NoSession ELSE FindSessionById(r.id)
           found == IF byId # NoSession THEN byId
                    ELSE FindSessionByPair(SortPair(r.caller, AiBot))
       IN  IF found # NoSession
           THEN /\ SetRequest(q, [r EXCEPT !.pc = "aiUserMessage", !.session = found,
                                           !.msgs = IncludedMessages(found),
                                           !.seen = Len(messages)])
                /\ UNCHANGED <<chatSessions, now>>
           ELSE /\ now' = now + d
                /\ chatSessions' = Append(chatSessions,
                                          NewSession(SortPair(r.caller, AiBot), TRUE, now'))
                /\ SetRequest(q, [r EXCEPT !.pc = "aiUserMessage",
                                           !.session = Len(chatSessions) + 1,
                                           !.seen = Len(messages)])
    /\ UNCHANGED <<relay, window, link, messages, faults>>

\* userMessage = await prisma.message.create(...); conversationHistory is
\* chatSession.messages followed by the current message
AiUserMessage(q) ==
    /\ q \in DOMAIN requests
    /\ requests[q].pc = "aiUserMessage"
    /\ now' = now + 1
    /\ messages' = Append(messages,
          NewMessage(requests[q].message, requests[q].caller, AiBot, requests[q].session,
                     FALSE, now'))
    /\ SetRequest(q, [requests[q] EXCEPT !.pc = "sendMessageToAI",
                                         !.history = Append(requests[q].msgs,
                                                            Len(messages) + 1)])
    /\ UNCHANGED <<relay, window, link, chatSessions, faults>>

\* sendMessageToAI: one provider call, which answers or fails (an error or the
\* 10 s timeout); with no provider left, the pattern-based response
SendMessageToAI(q, ok) ==
    /\ q \in DOMAIN requests
    /\ requests[q].pc = "sendMessageToAI"
    /\ LET r == requests[q]
           p == NextProvider(r.keys, r.calls)
       IN  IF p = "pattern"
           THEN SetRequest(q, [r EXCEPT !.pc = "aiMessage", !.provider = p])
           ELSE IF ok
           THEN SetRequest(q, [r EXCEPT !.pc = "aiMessage", !.provider = p,
                                        !.calls = Append(@, p)])
           ELSE SetRequest(q, [r EXCEPT !.calls = Append(@, p)])
    /\ UNCHANGED <<relay, window, link, chatSessions, messages, now, faults>>

\* aiMessage = await prisma.message.create(...); then the response
AiMessage(q) ==
    /\ q \in DOMAIN requests
    /\ requests[q].pc = "aiMessage"
    /\ now' = now + 1
    /\ messages' = Append(messages,
          NewMessage(requests[q].provider, AiBot, requests[q].caller, requests[q].session,
                     TRUE, now'))
    /\ Respond(q, 200)
    /\ UNCHANGED <<relay, window, link, chatSessions, faults>>

\* a store in which the conversation of user 1 with the AI bot holds up to
\* MaxHistoryRows messages, each written at a later instant than the last
InitAi ==
    /\ secret = TRUE
    /\ sockets = <<>>
    /\ onlineUsers = [u \in Users |-> NoConn]
    /\ \E n \in 0..MaxHistoryRows :
          /\ chatSessions = IF n = 0 THEN <<>> ELSE <<NewSession(<<1, AiBot>>, TRUE, 0)>>
          /\ messages = [i \in 1..n |->
                IF i % 2 = 1 THEN NewMessage("hi", 1, AiBot, 1, FALSE, i)
                ELSE NewMessage("openai", AiBot, 1, 1, TRUE, i)]
          /\ now = n
    /\ sends = <<>>
    /\ emitted = <<>>
    /\ faults = 0
    /\ signals = <<>>
    /\ requests = <<>>
    /\ window = NoWindow
    /\ link = NoLink

NextAi ==
    \/ \E caller \in {1, NoUser}, message \in {"hi", ""}, id \in {NoSession, 1, UnknownSession},
          keys \in SUBSET {"openai", "huggingface"} : AiChat(caller, message, id, keys)
    \/ \E q \in AiRequestIds, d \in Elapsed : AiFind(q, d)
    \/ \E q \in AiRequestIds : AiUserMessage(q)
    \/ \E q \in AiRequestIds, ok \in BOOLEAN : SendMessageToAI(q, ok)
    \/ \E q \in AiRequestIds : AiMessage(q)

SpecAi == InitAi /\ [][NextAi]_vars

\* ------------------------------------------------ switching conversations
\* the users the tab can select; the store holds Me's session with each
Contacts == {2, 3}
MaxSelects == 3
LoadIds == 1..(2 * MaxSelects)

\* the id POST /api/sessions answers for otherUserId = u
SessionWith(u) == FindSessionByPair(SortPair(Me, u))

\* the answer of GET /api/sessions/[id]?page=1&limit=..: the first page, oldest first
FirstPage(sid) ==
    LET pg == SkipTake(AscByCreatedAt(SessionMessages(sid)), 1, ClientLimit)
    IN  [i \in DOMAIN pg |-> Wire(pg[i])]

\* one call of loadChatSession: user and cur are selectedUser.id and currentUserId
\* as the effect that made the call closed over them
Load(u, cur) == [user |-> u, cur |-> cur, pc |-> "session", session |-> NoSession]

\* the parent selects another user: the component renders and its effect runs.
\* components/chat/ChatWindow clears the window and sets currentUserId, which
\* runs the effect a second time (currentUserId is one of its dependencies)
SelectUser(u) ==
    /\ window.component \in Components
    /\ u # window.selectedUser
    /\ Len(window.loads) + 2 <= 2 * MaxSelects
    /\ window' =
          IF window.component = ComponentsChatWindow
          THEN [window EXCEPT !.selectedUser = u,
                              !.loads = Append(@, Load(u, u))]
          ELSE IF window.currentUserId # u
          THEN [window EXCEPT !.selectedUser = u,
                              !.messages = <<>>,
                              !.sessionId = NoSession,
                              !.currentUserId = u,
                              !.loads = @ \o <<Load(u, window.currentUserId), Load(u, u)>>]
          ELSE [window EXCEPT !.selectedUser = u,
                              !.loads = Append(@, Load(u, u))]
    /\ UNCHANGED <<secret, sockets, onlineUsers, chatSessions, messages, sends, emitted, now,
                   faults, signals, requests, link>>

\* the answer of POST /api/sessions arrives: setSessionId(sessionData.id)
LoadSession(l) ==
    /\ l \in DOMAIN window.loads
    /\ window.loads[l].pc = "session"
    /\ window' = [window EXCEPT
          !.sessionId = SessionWith(window.loads[l].user),
          !.loads[l].pc = "messages",
          !.loads[l].session = SessionWith(window.loads[l].user)]
    /\ UNCHANGED <<secret, sockets, onlineUsers, chatSessions, messages, sends, emitted, now,
                   faults, signals, requests, link>>

\* the answer of the page fetch arrives: setMessages(messagesData.messages), in
\* components/chat/ChatWindow under if (selectedUser.id === currentUserId)
LoadMessages(l) ==
    /\ l \in DOMAIN window.loads
    /\ window.loads[l].pc = "messages"
    /\ LET ld == window.loads[l]
           page == FirstPage(ld.session)
       IN  window' =
              IF window.component = ComponentsChatWindow
              THEN [window EXCEPT
                       !.messages = page,
                       !.currentPage = 1,
                       !.hasMore = 1 < CeilDiv(Cardinality(SessionMessages(ld.session)),
                                               ClientLimit),
                       !.loads[l].pc = "done"]
              ELSE IF ld.user = ld.cur
              THEN [window EXCEPT !.messages = page, !.loads[l].pc = "done"]
              ELSE [window EXCEPT !.loads[l].pc = "done"]
    /\ UNCHANGED <<secret, sockets, onlineUsers, chatSessions, messages, sends, emitted, now,
                   faults, signals, requests, link>>

\* a tab with no user selected over a store that holds a session with each contact
\* and a message in each
InitSwitch ==
    /\ secret = TRUE
    /\ sockets = <<>>
    /\ onlineUsers = [u \in Users |-> NoConn]
    /\ chatSessions = <<NewSession(<<Me, 2>>, FALSE, 0), NewSession(<<Me, 3>>, FALSE, 0)>>
    /\ messages = <<NewMessage("hi", 2, Me, 1, FALSE, 1), NewMessage("yo", 3, Me, 2, FALSE, 2)>>
    /\ now = 2
    /\ sends = <<>>
    /\ emitted = <<>>
    /\ faults = 0
    /\ signals = <<>>
    /\ requests = <<>>
    /\ \E c \in Components : window = [NoWindow EXCEPT !.component = c]
    /\ link = NoLink

NextSwitch ==
    \/ \E u \in Contacts : SelectUser(u)
    \/ \E l \in LoadIds : LoadSession(l)
    \/ \E l \in LoadIds : LoadMessages(l)

SpecSwitch == InitSwitch /\ [][NextSwitch]_vars

\* ------------------------------------------------- lib/socket: getSocket
\* The module keeps socket (the last socket io() returned, or null) and
\* tokenPromise (the cached fetch of /api/socket/token, or null).  link holds
\* them here with every socket io() has opened (connecting, connected or
\* closed), every token fetch started, and the getSocket calls made: pc is the
\* await a call is suspended at, promise the fetch it awaits, seen the socket
\* that was still connecting when it was called, result the socket it returned.
MaxGetSocketCalls == 3
GetSocketCalls == 1..MaxGetSocketCalls

NoModule == [socket |-> NoConn, tokenPromise |-> 0, opened |-> <<>>, promises |-> <<>>,
             calls |-> <<>>]

\* the sockets of this browser session with a connection open or being opened
LiveSockets == {s \in DOMAIN link.opened : link.opened[s] \in {"connecting", "connected"}}

\* getSocket up to await getSocketToken(); getSocketToken starts the fetch when
\* tokenPromise is null
GetSocket ==
    /\ Len(link.calls) < MaxGetSocketCalls
    /\ LET s == link.socket
           seen == IF s # NoConn /\ link.opened[s] = "connecting" THEN s ELSE NoConn
       IN  IF s # NoConn /\ link.opened[s] = "connected"
           THEN link' = [link EXCEPT !.calls =
                           Append(@, [pc |-> "done", promise |-> 0, seen |-> seen,
                                      result |-> s])]
           ELSE LET fresh == link.tokenPromise = 0
                    p == IF fresh THEN Len(link.promises) + 1 ELSE link.tokenPromise
                IN  link' = [link EXCEPT
                        !.promises = IF fresh THEN Append(@, "pending") ELSE @,
                        !.tokenPromise = p,
                        !.calls = Append(@, [pc |-> "token", promise |-> p, seen |-> seen,
                                             result |-> NoConn])]
    /\ UNCHANGED <<relay, chatSessions, messages, now, faults, requests, window>>

\* the fetch of /api/socket/token answers; on a failure the catch resets
\* tokenPromise
TokenFetched(p, ok) ==
    /\ p \in DOMAIN link.promises
    /\ link.promises[p] = "pending"
    /\ link' = [link EXCEPT !.promises[p] = IF ok THEN "resolved" ELSE "rejected",
                            !.tokenPromise = IF ok THEN @ ELSE 0]
    /\ UNCHANGED <<relay, chatSessions, messages, now, faults, requests, window>>

\* getSocket after the await: socket = io(wsUrl, {auth: {token}, ...}), or the
\* rejection is thrown to the caller
GetSocketResume(k) ==
    /\ k \in DOMAIN link.calls
    /\ link.calls[k].pc = "token"
    /\ link.promises[link.calls[k].promise] # "pending"
    /\ IF link.promises[link.calls[k].promise] = "resolved"
       THEN link' = [link EXCEPT !.opened = Append(@, "connecting"),
                                 !.socket = Len(link.opened) + 1,
                                 !.calls[k].pc = "done",
                                 !.calls[k].result = Len(link.opened) + 1]
       ELSE link' = [link EXCEPT !.calls[k].pc = "failed"]
    /\ UNCHANGED <<relay, chatSessions, messages, now, faults, requests, window>>

\* the handshake of a socket completes: socket.connected becomes true
SocketConnected(s) ==
    /\ s \in DOMAIN link.opened
    /\ link.opened[s] = "connecting"
    /\ link' = [link EXCEPT !.opened[s] = "connected"]
    /\ UNCHANGED <<relay, chatSessions, messages, now, faults, requests, window>>

\* the connection of a socket drops; with reconnection: true it connects again
SocketDropped(s) ==
    /\ s \in DOMAIN link.opened
    /\ link.opened[s] = "connected"
    /\ link' = [link EXCEPT !.opened[s] = "connecting"]
    /\ UNCHANGED <<relay, chatSessions, messages, now, faults, requests, window>>

\* disconnectSocket
DisconnectSocket ==
    /\ link' = [link EXCEPT
          !.opened = IF link.socket # NoConn THEN [@ EXCEPT ![link.socket] = "closed"] ELSE @,
          !.socket = NoConn,
          !.tokenPromise = 0]
    /\ UNCHANGED <<relay, chatSessions, messages, now, faults, requests, window>>

InitSocket ==
    /\ secret = TRUE
    /\ sockets = <<>>
    /\ onlineUsers = [u \in Users |-> NoConn]
    /\ chatSessions = <<>>
    /\ messages = <<>>
    /\ sends = <<>>
    /\ emitted = <<>>
    /\ now = 0
    /\ faults = 0
    /\ signals = <<>>
    /\ requests = <<>>
    /\ window = NoWindow
    /\ link = NoModule

NextSocket ==
    \/ GetSocket
    \/ \E p \in GetSocketCalls, ok \in BOOLEAN : TokenFetched(p, ok)
    \/ \E k \in GetSocketCalls : GetSocketResume(k)
    \/ \E s \in GetSocketCalls : SocketConnected(s)
    \/ \E s \in GetSocketCalls : SocketDropped(s)
    \/ DisconnectSocket

SpecSocket == InitSocket /\ [][NextSocket]_vars

\* the chat window after loadChatSession has shown page 1 of a conversation that
\* holds up to MaxStored messages, each written at a later instant than the last
InitClient ==
    /\ secret = TRUE
    /\ sockets = <<>>
    /\ onlineUsers = [u \in Users |-> NoConn]
    /\ chatSessions = <<NewSession(<<Me, Peer>>, FALSE, 0)>>
    /\ \E n \in 0..MaxStored :
          /\ messages = [i \in 1..n |-> NewMessage("hi", Peer, Me, OpenSession, FALSE, i)]
          /\ now = n
    /\ sends = <<>>
    /\ emitted = <<>>
    /\ faults = 0
    /\ signals = <<>>
    /\ requests = <<>>
    /\ \E c \in Components : \E a \in FetchAnswers(1) :
          window = [NoWindow EXCEPT
                       !.component = c,
                       !.selectedUser = Peer,
                       !.currentUserId = Peer,
                       !.sessionId = OpenSession,
                       !.messages = a.msgs,
                       !.hasMore = c = ComponentsChatWindow /\ a.page < a.totalPages]
    /\ link = NoLink

NextClient ==
    \/ \E value \in {"hi"} : HandleInputChange(value)
    \/ HandleSendMessage
    \/ \E ok \in BOOLEAN : RelayMessageSend(ok)
    \/ PeerMessage
    \/ OnMessageSent
    \/ OnMessageError
    \/ \E k \in 1..MaxClientSends : SendTimeout(k)
    \/ HandleRetry
    \/ OnMessageReceive
    \/ OnConnect
    \/ OnConnectSynced
    \/ LoadMoreMessages
    \/ LoadMoreLoaded

SpecClient == InitClient /\ [][NextClient]_vars

\* every writer of the store side by side over a store that already holds sessions
\* and messages: message:send of the relay, POST /api/sessions, POST /api/messages
StoreOps == 1

InitStore ==
    /\ secret = TRUE
    /\ sockets = <<>>
    /\ onlineUsers = [u \in Users |-> NoConn]
    /\ \E held \in BOOLEAN, n \in 0..1 :
          /\ chatSessions = IF held THEN <<NewSession(<<1, 2>>, FALSE, 0)>> ELSE <<>>
          /\ messages = IF held /\ n = 1 THEN <<NewMessage("hi", 1, 2, 1, FALSE, 0)>> ELSE <<>>
    /\ now = 0
    /\ sends = <<>>
    /\ emitted = <<>>
    /\ faults = 0
    /\ signals = <<>>
    /\ requests = <<>>
    /\ window = NoWindow
    /\ link = NoLink

NextStore ==
    \/ \E token \in ValidTokens : Connect(token)
    \/ \E c \in ConnIds, p \in SendInputs :
          Len(sends) < StoreOps /\ IssueSend(c, p[1], p[2], p[3])
    \/ \E t \in SendIds : FindById(t)
    \/ \E t \in SendIds : FindByPair(t)
    \/ \E t \in SendIds, d \in Elapsed : CreateSession(t, d)
    \/ \E t \in SendIds, d \in Elapsed : CreateMsg(t, d)
    \/ \E t \in SendIds : UpdateSession(t)
    \/ \E t \in SendIds : StoreFault(t)
    \/ \E caller \in Users, other \in Users :
          Len(requests) < StoreOps /\ PostSession(caller, other)
    \/ \E q \in RequestIds : FindCurrentUser(q)
    \/ \E q \in RequestIds : FindOtherUser(q)
    \/ \E q \in RequestIds : FindSession(q)
    \/ \E q \in RequestIds, d \in Elapsed : PostCreateSession(q, d)
    \/ \E q \in RequestIds : Refetch(q)
    \/ \E caller \in Users, b \in PostMessageInputs :
          Len(requests) < StoreOps /\ PostMessage(caller, b[1], b[2], b[3])
    \/ \E q \in PageRequestIds : PmFind(q)
    \/ \E q \in PageRequestIds, d \in Elapsed : PmCreate(q, d)
    \/ \E q \in PageRequestIds : PmUpdate(q)

SpecStore == InitStore /\ [][NextStore]_vars

\* ================================================================ claims
Done(t) == sends[t].pc = "done"
Sent(t) == Done(t) /\ sends[t].outcome = "sent"
\* the positions in the emit log of the events of kind ev that send t caused
EventsOf(t, ev) == {i \in DOMAIN emitted : emitted[i].ev = ev /\ emitted[i].send = t}

\* C1: a disconnect of a connection that is no longer the one on record for its
\* identity leaves the registry entry of that identity as it was.
C1_StaleDisconnectKeepsPresence ==
    [][\A c \in DOMAIN sockets :
         (/\ sockets[c].st = "open"
          /\ sockets'[c].st = "closed"
          /\ onlineUsers[sockets[c].userId] \notin {c, NoConn})
         => onlineUsers'[sockets[c].userId] = onlineUsers[sockets[c].userId]]_vars

\* C10: a socket whose handshake carried no token or a token that fails
\* verification, or that arrived with the signing secret unset, is refused: it is
\* not in the registry, no emit comes from or reaches it, and no message:send of
\* it is handled.
C10_BadHandshakeIsRefused ==
    \A c \in DOMAIN sockets :
        (sockets[c].token.kind # "valid" \/ ~secret)
        => /\ sockets[c].st = "refused"
           /\ sockets[c].err # "ok"
           /\ \A u \in Users : onlineUsers[u] # c
           /\ \A i \in DOMAIN emitted :
                  emitted[i].src # c /\ emitted[i].to # c /\ c \notin emitted[i].rcv
           /\ \A t \in DOMAIN sends : sends[t].conn # c

\* C10 witness: a forged token was refused while an admitted socket of the
\* identity it claims is being served
C10_Witness ==
    \E c, d \in DOMAIN sockets :
        /\ sockets[c].token.kind \in {"badsig", "expired"} /\ sockets[c].st = "refused"
        /\ sockets[d].st = "open" /\ sockets[d].userId = sockets[c].token.id
        /\ \E t \in DOMAIN sends : sends[t].conn = d

\* C2 as stated: a persisted send whose recipient was online when the send was
\* issued ends with exactly one message:receive, carrying the persisted id, at a
\* connection of the recipient (taken here for the sends to another identity that
\* ran to message:sent).
C2_OnlineAtIssueReceivesOnce ==
    \A t \in DOMAIN sends :
        (/\ Sent(t) /\ sends[t].msg # NoMsg
         /\ sends[t].userId # sends[t].rcpt
         /\ sends[t].onlineAtIssue)
        => Cardinality({i \in EventsOf(t, "message:receive") :
                          /\ emitted[i].msg = sends[t].msg
                          /\ emitted[i].rcv # {}
                          /\ sockets[emitted[i].to].userId = sends[t].rcpt}) = 1

\* C2 amended: a send that has run its delivery step has emitted one
\* message:receive, with the id of its persisted record and to the connection the
\* registry named at that step, when the registry named one, and none otherwise;
\* a send that has not run the step has emitted none.
C2_ReceiveOncePerRegistryEntry ==
    \A t \in DOMAIN sends :
        IF sends[t].delivering /\ sends[t].lookup # NoConn
        THEN /\ Cardinality(EventsOf(t, "message:receive")) = 1
             /\ \A i \in EventsOf(t, "message:receive") :
                    /\ emitted[i].to = sends[t].lookup
                    /\ emitted[i].rcv = {sends[t].lookup}
                    /\ sockets[emitted[i].to].userId = sends[t].rcpt
                    /\ emitted[i].msg = sends[t].msg
                    /\ emitted[i].msg \in DOMAIN messages
                    /\ messages[emitted[i].msg].senderId = sends[t].userId
                    /\ messages[emitted[i].msg].recipientId = sends[t].rcpt
        ELSE EventsOf(t, "message:receive") = {}

\* C2 witness: one send delivered to a registered recipient, and one whose
\* recipient was online at issue and gone from the registry at the delivery step
C2_Witness ==
    /\ \E t \in DOMAIN sends : sends[t].delivering /\ sends[t].lookup # NoConn
    /\ \E t \in DOMAIN sends :
          sends[t].delivering /\ sends[t].onlineAtIssue /\ sends[t].lookup = NoConn

C4_RaceLoserFallsBack ==
    \A t1, t2 \in DOMAIN sends :
        (/\ t1 # t2
         /\ Done(t1) /\ Done(t2)
         /\ sends[t1].sid = NoSession /\ sends[t2].sid = NoSession
         /\ sends[t1].userId # sends[t1].rcpt
         /\ ~MissingFields(sends[t1].rcpt, sends[t1].content)
         /\ ~MissingFields(sends[t2].rcpt, sends[t2].content)
         /\ {sends[t1].userId, sends[t1].rcpt} = {sends[t2].userId, sends[t2].rcpt}
         /\ sends[t1].outcome # "fault" /\ sends[t2].outcome # "fault")
        => /\ Sent(t1) /\ Sent(t2)
           /\ sends[t1].session = sends[t2].session

\* C5: there is one session row per unordered pair of identities, stored with
\* user1Id <= user2Id; a POST /api/sessions answered 200 returns the id of the row
\* of its pair; and a request for two distinct existing users that no fault of the
\* store hit is answered 200, the loser of a create race included.
C5_OneSessionPerPair ==
    /\ \A i, j \in DOMAIN chatSessions :
          {chatSessions[i].user1Id, chatSessions[i].user2Id}
             = {chatSessions[j].user1Id, chatSessions[j].user2Id} => i = j
    /\ \A i \in DOMAIN chatSessions : chatSessions[i].user1Id <= chatSessions[i].user2Id
    /\ \A q \in DOMAIN requests :
          /\ requests[q].status = 200
                => /\ requests[q].session \in DOMAIN chatSessions
                   /\ {chatSessions[requests[q].session].user1Id,
                       chatSessions[requests[q].session].user2Id}
                         = {requests[q].caller, requests[q].other}
          /\ (/\ requests[q].pc = "done"
              /\ requests[q].caller \in Users /\ requests[q].other \in Users
              /\ requests[q].caller # requests[q].other
              /\ ~requests[q].faulted)
             => requests[q].status = 200

\* C5 witness: two requests for one pair, made from both sides, both answered
\* with the one row, one of them after losing the create race
C5_Witness ==
    \E q1, q2 \in DOMAIN requests :
        /\ q1 # q2
        /\ requests[q1].status = 200 /\ requests[q2].status = 200
        /\ requests[q1].caller = requests[q2].other
        /\ requests[q1].other = requests[q2].caller
        /\ requests[q1].session = requests[q2].session
        /\ requests[q1].raced \/ requests[q2].raced

\* C6: the sender and the recipient of every message are participants of the
\* message's session.
C6_MessageWithinSession ==
    \A m \in DOMAIN messages :
        LET s == chatSessions[messages[m].sessionId]
        IN  /\ messages[m].senderId \in {s.user1Id, s.user2Id}
            /\ messages[m].recipientId \in {s.user1Id, s.user2Id}

\* C7: of two acknowledged sends issued in the order a, b on one connection to
\* one other identity, a's record is created before b's and a's message:receive is
\* emitted before b's.
C7_StoredAndDeliveredInIssueOrder ==
    \A a, b \in DOMAIN sends :
        (/\ a < b
         /\ sends[a].conn = sends[b].conn
         /\ sends[a].rcpt = sends[b].rcpt
         /\ sends[a].userId # sends[a].rcpt
         /\ Sent(a) /\ Sent(b))
        => /\ sends[a].msg < sends[b].msg
           /\ messages[sends[a].msg].createdAt <= messages[sends[b].msg].createdAt
           /\ \A i \in EventsOf(a, "message:receive"), j \in EventsOf(b, "message:receive") :
                  i < j

\* C8: a finished send whose record was created has been acknowledged with
\* message:sent on its connection.
C8_PersistedIsAcknowledged ==
    \A t \in DOMAIN sends :
        (Done(t) /\ sends[t].msg # NoMsg)
        => \E i \in EventsOf(t, "message:sent") :
              emitted[i].to = sends[t].conn /\ emitted[i].msg = sends[t].msg

\* C9: a finished send has a record in the store exactly if it ended with
\* message:sent; one that ended with message:error has none.
C9_RecordIffSent ==
    \A t \in DOMAIN sends :
        Done(t) =>
            /\ (sends[t].msg # NoMsg) <=> (EventsOf(t, "message:sent") # {})
            /\ (EventsOf(t, "message:error") # {}) => sends[t].msg = NoMsg

\* C11: the registry has at most one entry per identity, each naming a socket that
\* was admitted as that identity, and the step that admits socket c as identity u
\* leaves the registry mapping u to c, whatever u's entry was before.
C11_LastConnectedWins ==
    /\ [](\A u \in Users :
            onlineUsers[u] # NoConn
            => /\ onlineUsers[u] \in DOMAIN sockets
               /\ sockets[onlineUsers[u]].userId = u
               /\ Cardinality({c \in DOMAIN sockets : onlineUsers[u] = c}) = 1)
    /\ [][\A c \in DOMAIN sockets' :
            (c \notin DOMAIN sockets /\ sockets'[c].st = "open")
            => /\ onlineUsers'[sockets'[c].userId] = c
               /\ \A v \in Users \ {sockets'[c].userId} : onlineUsers'[v] = onlineUsers[v]]_vars

\* C11 witness: a second socket of an identity was admitted while the first was
\* open, and the registry names the second
C11_Witness ==
    \E c1, c2 \in DOMAIN sockets :
        /\ c1 < c2
        /\ sockets[c1].st = "open" /\ sockets[c2].st = "open"
        /\ sockets[c1].userId = sockets[c2].userId
        /\ onlineUsers[sockets[c2].userId] = c2
\* the identities that have an admitted socket still connected
LiveIdentities == {sockets[c].userId : c \in {d \in DOMAIN sockets : sockets[d].st = "open"}}

\* some identity has had two sockets connected at once: a later socket of it was
\* admitted before the disconnect of an earlier one was handled
EverSuperseded ==
    \E c1, c2 \in DOMAIN sockets :
        /\ c1 < c2
        /\ sockets[c1].st # "refused" /\ sockets[c2].st # "refused"
        /\ sockets[c1].userId = sockets[c2].userId
        /\ ~\E i, j \in DOMAIN emitted :
               /\ i < j
               /\ emitted[i].ev = "user:offline" /\ emitted[i].src = c1
               /\ emitted[j].ev = "user:online" /\ emitted[j].src = c2

\* C12: while no identity has had two sockets connected at once, the registry's
\* keys are the identities with a connected socket, and the step that handles a
\* status:request of socket c emits one users:online, to c alone, listing those
\* identities, and changes neither the sockets, the registry nor the store.
C12_StatusListsLiveIdentities ==
    /\ [](~EverSuperseded => {u \in Users : onlineUsers[u] # NoConn} = LiveIdentities)
    /\ [][\A k \in DOMAIN signals' :
            (k \notin DOMAIN signals /\ signals'[k].ev = "status:request" /\ ~EverSuperseded)
            => /\ Len(emitted') = Len(emitted) + 1
               /\ SubSeq(emitted', 1, Len(emitted)) = emitted
               /\ emitted'[Len(emitted')].ev = "users:online"
               /\ emitted'[Len(emitted')].to = signals'[k].conn
               /\ emitted'[Len(emitted')].rcv = {signals'[k].conn}
               /\ emitted'[Len(emitted')].list = LiveIdentities
               /\ UNCHANGED <<secret, sockets, onlineUsers, chatSessions, messages, sends,
                              requests>>]_vars

\* C12 witness: a status:request was answered after one identity had connected
\* and disconnected; the reply lists the requester and not the one that left
C12_Witness ==
    /\ ~EverSuperseded
    /\ \E k \in DOMAIN signals, c \in DOMAIN sockets :
          /\ signals[k].ev = "status:request"
          /\ sockets[c].st = "closed"
          /\ emitted[signals[k].at + 1].ev = "users:online"
          /\ emitted[signals[k].at + 1].list = {sockets[signals[k].conn].userId}
          /\ sockets[c].userId \notin emitted[signals[k].at + 1].list
          /\ \E i \in 1..signals[k].at : emitted[i].ev = "user:offline" /\ emitted[i].src = c
\* C18: the step that admits socket c as identity u appends two emits: user:online
\* naming u, addressed to all and reaching every socket then connected (c
\* included), and users:online to c alone, listing the registry's keys after the
\* step, u among them.
C18_ConnectAnnouncesAndLists ==
    [][\A c \in DOMAIN sockets' :
          (c \notin DOMAIN sockets /\ sockets'[c].st = "open")
          => /\ Len(emitted') = Len(emitted) + 2
             /\ SubSeq(emitted', 1, Len(emitted)) = emitted
             /\ emitted'[Len(emitted) + 1].ev = "user:online"
             /\ emitted'[Len(emitted) + 1].user = sockets'[c].userId
             /\ emitted'[Len(emitted) + 1].to = NoConn
             /\ emitted'[Len(emitted) + 1].rcv
                   = {d \in DOMAIN sockets' : sockets'[d].st = "open"}
             /\ emitted'[Len(emitted) + 2].ev = "users:online"
             /\ emitted'[Len(emitted) + 2].to = c
             /\ emitted'[Len(emitted) + 2].rcv = {c}
             /\ emitted'[Len(emitted) + 2].list = {u \in Users : onlineUsers'[u] # NoConn}
             /\ sockets'[c].userId \in emitted'[Len(emitted) + 2].list]_vars

\* C18 witness: a socket was admitted while a socket of another identity was
\* connected: its user:online reached both and its list names both identities
C18_Witness ==
    \E i \in DOMAIN emitted :
        /\ emitted[i].ev = "user:online"
        /\ Cardinality(emitted[i].rcv) = 2
        /\ i + 1 \in DOMAIN emitted
        /\ emitted[i + 1].ev = "users:online"
        /\ emitted[i + 1].to = emitted[i].src
        /\ Cardinality(emitted[i + 1].list) = 2
\* the positions in the emit log of all the events that send t caused
AllEventsOf(t) == {i \in DOMAIN emitted : emitted[i].send = t}

\* C14: a message:send with empty content or without recipientId is over within
\* its first step: it has caused one emit, a message:error about the missing
\* fields, addressed to and reaching its own socket only; it holds no session and
\* no message; and the step changes no session or message row.
C14_MissingFieldsRejected ==
    /\ [](\A t \in DOMAIN sends :
            (sends[t].rcpt = NoUser \/ sends[t].content = "")
            => /\ sends[t].pc = "done"
               /\ sends[t].session = NoSession /\ sends[t].msg = NoMsg
               /\ Cardinality(AllEventsOf(t)) = 1
               /\ \A i \in AllEventsOf(t) :
                      /\ emitted[i].ev = "message:error"
                      /\ emitted[i].err = "Missing required fields: recipientId and content"
                      /\ emitted[i].to = sends[t].conn
                      /\ emitted[i].rcv = {sends[t].conn}
               /\ \A m \in DOMAIN messages :
                      ~(messages[m].senderId = sends[t].userId
                        /\ messages[m].recipientId = sends[t].rcpt
                        /\ messages[m].content = sends[t].content))
    /\ [][\A t \in DOMAIN sends' :
            (t \notin DOMAIN sends /\ (sends'[t].rcpt = NoUser \/ sends'[t].content = ""))
            => UNCHANGED <<chatSessions, messages, onlineUsers, sockets>>]_vars

\* C14 witness: a send with empty content and one without recipient were
\* rejected while a socket of another identity was connected
C14_Witness ==
    /\ \E t \in DOMAIN sends : sends[t].content = "" /\ EventsOf(t, "message:error") # {}
    /\ \E t \in DOMAIN sends : sends[t].rcpt = NoUser /\ EventsOf(t, "message:error") # {}
    /\ \E c, d \in DOMAIN sockets :
          /\ sockets[c].st = "open" /\ sockets[d].st = "open"
          /\ sockets[c].userId # sockets[d].userId
\* C17: a message:send that has finished has caused exactly one terminal emit,
\* message:sent or message:error, addressed to its own socket; one that has not
\* finished has caused none; and every message:error is addressed to the socket
\* whose send it reports and reaches no other socket.
C17_OneTerminalEvent ==
    /\ \A t \in DOMAIN sends :
          LET terminal == EventsOf(t, "message:sent") \cup EventsOf(t, "message:error")
          IN  /\ Cardinality(terminal) = (IF sends[t].pc = "done" THEN 1 ELSE 0)
              /\ \A i \in terminal : emitted[i].to = sends[t].conn
    /\ \A i \in DOMAIN emitted :
          emitted[i].ev = "message:error"
          => /\ emitted[i].send \in DOMAIN sends
             /\ emitted[i].to = sends[emitted[i].send].conn
             /\ emitted[i].rcv \subseteq {sends[emitted[i].send].conn}

\* C17 witness: one send ended with message:sent and another, hit by an error of
\* the store, with message:error, while the recipient's socket was connected
C17_Witness ==
    \E t1, t2 \in DOMAIN sends :
        /\ EventsOf(t1, "message:sent") # {}
        /\ EventsOf(t2, "message:error") # {}
        /\ sends[t2].outcome \in {"fault", "P2002"}
        /\ sends[t2].userId # sends[t2].rcpt
        /\ onlineUsers[sends[t2].rcpt] # NoConn
\* C16: the message:sent of a send carries the stored record: its id is the id
\* the store gave the send's message row, its content, senderId, recipientId and
\* sessionId are the row's (the content and recipient being the ones the client
\* sent, the sender the socket's identity), and every message:receive of the send
\* carries the same payload.
C16_AckCarriesStoredRecord ==
    \A t \in DOMAIN sends :
        \A i \in EventsOf(t, "message:sent") :
            /\ emitted[i].data.id = sends[t].msg
            /\ emitted[i].data.id \in DOMAIN messages
            /\ emitted[i].data.content = messages[emitted[i].data.id].content
            /\ emitted[i].data.senderId = messages[emitted[i].data.id].senderId
            /\ emitted[i].data.recipientId = messages[emitted[i].data.id].recipientId
            /\ emitted[i].data.sessionId = messages[emitted[i].data.id].sessionId
            /\ emitted[i].data.content = sends[t].content
            /\ emitted[i].data.senderId = sends[t].userId
            /\ emitted[i].data.recipientId = sends[t].rcpt
            /\ \A j \in EventsOf(t, "message:receive") : emitted[j].data = emitted[i].data

\* C16 witness: a send whose row is not the first of the store was acknowledged
\* and delivered to the recipient's socket
C16_Witness ==
    \E t \in DOMAIN sends :
        /\ EventsOf(t, "message:sent") # {}
        /\ EventsOf(t, "message:receive") # {}
        /\ sends[t].msg # t
        /\ sends[t].userId # sends[t].rcpt
\* C13: no session row pairs an identity with itself, no message has its sender
\* as recipient, a finished message:send whose recipientId is the sender's
\* identity has ended with message:error and holds no session and no message, and
\* a POST /api/sessions whose otherUserId is the caller is answered 400 without a
\* session.
C13_SelfPairingRejected ==
    /\ \A s \in DOMAIN chatSessions : chatSessions[s].user1Id # chatSessions[s].user2Id
    /\ \A m \in DOMAIN messages : messages[m].senderId # messages[m].recipientId
    /\ \A t \in DOMAIN sends :
          (sends[t].pc = "done" /\ sends[t].rcpt = sends[t].userId)
          => /\ EventsOf(t, "message:error") # {}
             /\ sends[t].session = NoSession /\ sends[t].msg = NoMsg
    /\ \A q \in DOMAIN requests :
          (requests[q].caller # NoUser /\ requests[q].other = requests[q].caller)
          => requests[q].status = 400 /\ requests[q].session = NoSession
\* C19: the step that handles a typing:start or typing:stop of a socket of
\* identity s with recipientId r and a sessionId appends, when the registry has an
\* entry for r, one emit of the same event, carrying s and the sessionId and no
\* message, to r's registered socket, and no emit at all when it has none; the
\* step changes neither the store, the registry nor the sockets, nothing goes to
\* the sender's socket when r is another identity, and no later step emits a
\* typing event.
C19_TypingRelayedOrDropped ==
    /\ [][\A k \in DOMAIN signals' :
            (/\ k \notin DOMAIN signals
             /\ signals'[k].ev \in {"typing:start", "typing:stop"}
             /\ signals'[k].rcpt # NoUser /\ signals'[k].sid # NoSession)
            => LET g == signals'[k]
                   target == onlineUsers[g.rcpt]
                   new == Len(emitted) + 1
               IN  /\ IF target # NoConn
                      THEN /\ Len(emitted') = new
                           /\ SubSeq(emitted', 1, Len(emitted)) = emitted
                           /\ emitted'[new].ev = g.ev
                           /\ emitted'[new].user = sockets[g.conn].userId
                           /\ emitted'[new].sid = g.sid
                           /\ emitted'[new].to = target
                           /\ emitted'[new].rcv = {target}
                           /\ emitted'[new].msg = NoMsg
                           /\ g.rcpt # sockets[g.conn].userId => target # g.conn
                      ELSE emitted' = emitted
                   /\ UNCHANGED <<secret, sockets, onlineUsers, chatSessions, messages, sends,
                                  requests>>]_vars
    /\ [][Len(signals') = Len(signals)
          => \A i \in DOMAIN emitted' :
                 i \notin DOMAIN emitted => emitted'[i].ev \notin {"typing:start", "typing:stop"}]_vars

\* C19 witness: a typing event of one identity was relayed to the socket of
\* another
C19_Witness ==
    \E k \in DOMAIN signals :
        /\ signals[k].ev \in {"typing:start", "typing:stop"}
        /\ signals[k].rcpt # sockets[signals[k].conn].userId
        /\ signals[k].at + 1 \in DOMAIN emitted
        /\ emitted[signals[k].at + 1].ev = signals[k].ev
        /\ sockets[emitted[signals[k].at + 1].to].userId = signals[k].rcpt
\* the session resolutions that have yielded an identifier: the sends without
\* sessionId that hold a session, and the POST /api/sessions answered 200
Resolved ==
    {[a |-> sends[t].userId, b |-> sends[t].rcpt, s |-> sends[t].session, via |-> "send"] :
        t \in {x \in DOMAIN sends : sends[x].sid = NoSession /\ sends[x].session # NoSession}}
    \cup
    {[a |-> requests[q].caller, b |-> requests[q].other, s |-> requests[q].session,
      via |-> "post"] :
        q \in {x \in DOMAIN requests : requests[x].status = 200}}

\* the session rows of the unordered pair {a, b}
RowsOfPair(a, b) ==
    {i \in DOMAIN chatSessions : {chatSessions[i].user1Id, chatSessions[i].user2Id} = {a, b}}

\* C15: any two resolutions for one unordered pair of distinct identities, through
\* message:send without sessionId or POST /api/sessions and in either direction,
\* yield the same session id, that of the pair's only row; and a resolution whose
\* lookup runs when the pair's row exists (and does not throw) ends that step
\* holding the row's id, with no row added.
C15_ResolverIsSymmetric ==
    /\ [](\A x, y \in Resolved :
            (x.a # x.b /\ {x.a, x.b} = {y.a, y.b})
            => /\ x.s = y.s
               /\ RowsOfPair(x.a, x.b) = {x.s})
    /\ [][\A t \in DOMAIN sends :
            (/\ sends[t].pc = "findByPair" /\ sends'[t].pc # "findByPair"
             /\ sends[t].userId # sends[t].rcpt
             /\ sends'[t].outcome # "fault"
             /\ RowsOfPair(sends[t].userId, sends[t].rcpt) # {})
            => /\ RowsOfPair(sends[t].userId, sends[t].rcpt) = {sends'[t].session}
               /\ chatSessions' = chatSessions]_vars
    /\ [][\A q \in DOMAIN requests :
            (/\ requests[q].pc = "findSession" /\ requests'[q].pc # "findSession"
             /\ ~requests'[q].faulted
             /\ RowsOfPair(requests[q].caller, requests[q].other) # {})
            => /\ requests'[q].status = 200
               /\ RowsOfPair(requests[q].caller, requests[q].other) = {requests'[q].session}
               /\ chatSessions' = chatSessions]_vars

\* C15 witness: a send from A to B and a POST /api/sessions of B naming A ended
\* with the same session id
C15_Witness ==
    \E x, y \in Resolved :
        /\ x.via = "send" /\ y.via = "post"
        /\ x.a # x.b /\ x.a = y.b /\ x.b = y.a
        /\ x.s = y.s
\* the GET /api/sessions/[id] requests answered 200
Fetched ==
    {q \in DOMAIN requests :
        requests[q].route = "GET /api/sessions/[id]" /\ requests[q].status = 200}

\* C20: a page fetch (id, page p, limit n) answered 200 went to a participant and
\* returns, of the session's messages that existed when the page was read, those
\* at positions (p-1)*n+1 .. p*n by createdAt: as many as that range holds, each
\* once, none of another session, in non-decreasing createdAt order, the k-th
\* with fewer than (p-1)*n+k session messages strictly older and at least
\* (p-1)*n+k not newer; total is the number of messages of the session when they
\* were counted, and totalPages is the least number of pages of n that hold them.
C20_PageIsSliceOfCreatedAtOrder ==
    \A q \in Fetched :
        LET r == requests[q]
            S == {m \in 1..r.seen : messages[m].sessionId = r.id}
            start == (r.page - 1) * r.limit
            rest == Cardinality(S) - start
            Older(m) == {x \in S : messages[x].createdAt < messages[m].createdAt}
            NotNewer(m) == {x \in S : messages[x].createdAt <= messages[m].createdAt}
        IN  /\ r.caller \in {chatSessions[r.id].user1Id, chatSessions[r.id].user2Id}
            /\ Len(r.msgs) = (IF rest <= 0 THEN 0 ELSE IF rest < r.limit THEN rest ELSE r.limit)
            /\ \A k \in DOMAIN r.msgs :
                   /\ r.msgs[k] \in S
                   /\ Cardinality(Older(r.msgs[k])) <= start + k - 1
                   /\ Cardinality(NotNewer(r.msgs[k])) >= start + k
            /\ \A j, k \in DOMAIN r.msgs :
                   j < k => /\ r.msgs[j] # r.msgs[k]
                            /\ messages[r.msgs[j]].createdAt <= messages[r.msgs[k]].createdAt
            /\ r.total = Cardinality({m \in 1..r.counted : messages[m].sessionId = r.id})
            /\ r.totalPages * r.limit >= r.total
            /\ (r.totalPages - 1) * r.limit < r.total

\* C20 witness: page 2 with limit 2 of a session of three messages, two of them
\* created at the same time, while the other session has a message as well
C20_Witness ==
    \E q \in Fetched :
        /\ requests[q].page = 2 /\ requests[q].limit = 2
        /\ Len(requests[q].msgs) = 1
        /\ requests[q].total = 3 /\ requests[q].totalPages = 2
        /\ \E m \in DOMAIN messages : messages[m].sessionId # requests[q].id
        /\ \E m1, m2 \in DOMAIN messages :
              /\ m1 # m2
              /\ messages[m1].sessionId = requests[q].id
              /\ messages[m2].sessionId = requests[q].id
              /\ messages[m1].createdAt = messages[m2].createdAt
\* C21: when a page fetch (id, p, n) reads its page and an earlier fetch with the
\* same id, p and n has read its page, the earlier page is a prefix of the later
\* one, whatever was appended between the two.
C21_PageStableUnderAppends ==
    [][\A q1, q2 \in DOMAIN requests :
          (/\ q1 # q2
           /\ requests[q1].route = "GET /api/sessions/[id]"
           /\ requests[q2].route = "GET /api/sessions/[id]"
           /\ requests[q2].pc = "getFind" /\ requests'[q2].pc = "getCount"
           /\ requests[q1].pc = "getCount" \/ requests[q1].status = 200
           /\ requests[q1].id = requests[q2].id
           /\ requests[q1].page = requests[q2].page
           /\ requests[q1].limit = requests[q2].limit)
          => /\ Len(requests[q1].msgs) <= Len(requests'[q2].msgs)
             /\ \A k \in DOMAIN requests[q1].msgs :
                    requests'[q2].msgs[k] = requests[q1].msgs[k]]_vars
\* socket c is connected and a later socket of its identity has been admitted
Superseded(c) ==
    /\ c \in DOMAIN sockets
    /\ sockets[c].st = "open"
    /\ \E d \in DOMAIN sockets :
          d > c /\ sockets[d].st # "refused" /\ sockets[d].userId = sockets[c].userId

\* C22: once a later socket of its identity has been admitted, a socket has no
\* message:send, typing or status:request handled and no emit reaches it.
C22_SupersededIsDestroyed ==
    [][\A c \in DOMAIN sockets :
          Superseded(c)
          => /\ \A t \in DOMAIN sends' : t \notin DOMAIN sends => sends'[t].conn # c
             /\ \A k \in DOMAIN signals' : k \notin DOMAIN signals => signals'[k].conn # c
             /\ \A i \in DOMAIN emitted' : i \notin DOMAIN emitted => c \notin emitted'[i].rcv]_vars

\* the step in which the tab handles a message:sent event
AckStep == link.in # <<>> /\ Head(link.in).ev = "message:sent" /\ link'.in = Tail(link.in)

\* C23: the placeholder of the pending send, listed under its temporary id, is
\* replaced in place by the acknowledged message with the id of the stored row when
\* message:sent arrives; when the send is rejected or times out the placeholder
\* stays where it is, marked as failed, and nothing is removed from the list.
C23_PlaceholderReplacedOrMarkedFailed ==
    [][\A i \in DOMAIN window.messages :
          (/\ window.awaiting # 0
           /\ window'.awaiting = 0
           /\ window.messages[i].id = TempId(window.awaiting))
          => /\ Len(window'.messages) = Len(window.messages)
             /\ IF AckStep
                THEN /\ window'.messages[i] = Head(link.in).data
                     /\ window'.messages[i].id.tag = "row"
                ELSE /\ IsFailed(window'.messages[i].id)
                     /\ window'.messages[i].content = window.messages[i].content]_vars

\* C24: when the retry affordance is invoked after a failed send, the failed
\* placeholder is no longer in the list and its content is in the input.
C24_RetryRestoresInput ==
    [][\A i \in DOMAIN window.messages :
          (/\ window'.retries = window.retries + 1
           /\ IsFailed(window.messages[i].id)
           /\ window.messages[i].id.n = window.failedMessageId.n)
          => /\ window.messages[i].id \notin Ids(window'.messages)
             /\ window'.inputValue = window.messages[i].content]_vars

\* C25: the message list of the tab never holds two entries with the same id.
C25_NoDuplicateIds ==
    \A i, j \in DOMAIN window.messages :
        window.messages[i].id = window.messages[j].id => i = j


\* C26: no step changes or removes a stored message, removes a session or changes
\* anything of a stored session but its updatedAt: the message log only grows.
C26_StoreOnlyGrows ==
    [][/\ \A m \in DOMAIN messages : m \in DOMAIN messages' /\ messages'[m] = messages[m]
       /\ \A s \in DOMAIN chatSessions :
             /\ s \in DOMAIN chatSessions'
             /\ chatSessions'[s] =
                   [chatSessions[s] EXCEPT !.updatedAt = chatSessions'[s].updatedAt]]_vars

\* a message:send or a POST /api/messages has added a message to a session that
\* held one already and has moved the session's updatedAt
C26_Witness ==
    /\ \E s \in DOMAIN chatSessions : chatSessions[s].updatedAt > chatSessions[s].createdAt
    /\ \E m1, m2 \in DOMAIN messages : m1 < m2 /\ messages[m1].sessionId = messages[m2].sessionId
    /\ \/ \E t \in DOMAIN sends : sends[t].outcome = "sent"
       \/ \E q \in DOMAIN requests : requests[q].route = "POST /api/messages"
                                      /\ requests[q].status = 201


\* the log entries since the last connect before entry i
SinceConnect(log, i) ==
    {j \in 1..(i - 1) : \A m \in j..(i - 1) : log[m].ev # "connect"}

AiRequests == {q \in DOMAIN requests : requests[q].route = "POST /api/ai/chat"}

\* C28: with both keys configured the first provider called is Hugging Face, and
\* OpenAI is called only after a Hugging Face call that failed.
C28_HuggingFaceFirst ==
    \A q \in AiRequests :
        (requests[q].keys = {"openai", "huggingface"} /\ requests[q].calls # <<>>)
        => /\ requests[q].calls[1] = "huggingface"
           /\ \A c \in DOMAIN requests[q].calls :
                 requests[q].calls[c] = "openai"
                 => c > 1 /\ requests[q].calls[c - 1] = "huggingface"

\* the messages of session sid among the first n rows, oldest first
RowsUpTo(sid, n) == {m \in SessionMessages(sid) : m <= n}

\* C29: the stored messages put into the conversation history are the 10 most
\* recent messages the session held when they were read (all of them when it held
\* fewer), oldest first.
C29_HistoryIsMostRecent ==
    \A q \in AiRequests :
        requests[q].session # NoSession
        => LET r == requests[q]
               held == RowsUpTo(r.session, r.seen)
           IN  /\ \A m \in held :
                     (\E k \in DOMAIN r.msgs : r.msgs[k] = m)
                     <=> Cardinality({x \in held : messages[x].createdAt > messages[m].createdAt})
                            < HistoryTake
               /\ \A j, k \in DOMAIN r.msgs :
                     j < k => messages[r.msgs[j]].createdAt <= messages[r.msgs[k]].createdAt


\* C30: a message:send persists a message only for a validated payload and into a
\* resolved session; message:receive and message:sent of a send are emitted only
\* when its message was persisted by an earlier step, and its message:receive
\* comes before its message:sent.
C30_StepOrder ==
    /\ [](\A t \in DOMAIN sends :
             /\ sends[t].msg # NoMsg
                => /\ sends[t].content # "" /\ sends[t].rcpt # NoUser
                   /\ sends[t].session \in DOMAIN chatSessions
                   /\ sends[t].msg \in DOMAIN messages
                   /\ messages[sends[t].msg].sessionId = sends[t].session
             /\ (EventsOf(t, "message:receive") \cup EventsOf(t, "message:sent")) # {}
                => sends[t].msg # NoMsg
             /\ \A i \in EventsOf(t, "message:receive"), j \in EventsOf(t, "message:sent") :
                   i < j)
    /\ [][\A i \in DOMAIN emitted' :
             (i \notin DOMAIN emitted /\ emitted'[i].ev \in {"message:receive", "message:sent"})
             => /\ emitted'[i].msg \in DOMAIN messages
                /\ emitted'[i].msg = sends[emitted'[i].send].msg]_vars

\* a send whose message was delivered to the recipient and acknowledged
C30_Witness ==
    \E t \in DOMAIN sends :
        EventsOf(t, "message:receive") # {} /\ EventsOf(t, "message:sent") # {}


\* the messages appended by handlers that have ended with success: message:sent,
\* 201 of POST /api/messages, 200 of POST /api/ai/chat (the user's message)
Appended ==
    {sends[t].msg : t \in {x \in DOMAIN sends : Sent(x)}}
    \cup {requests[q].msg : q \in {x \in DOMAIN requests :
                                      /\ requests[x].route = "POST /api/messages"
                                      /\ requests[x].status = 201}}
    \cup {requests[q].history[Len(requests[q].history)] :
             q \in {x \in AiRequests : requests[x].status = 200}}

\* C31: once a handler that appended a message has ended with success, the
\* session of the message has an updatedAt not earlier than the message's
\* createdAt, and no step moves a session's updatedAt back.
C31_AppendBumpsUpdatedAt ==
    /\ [](\A m \in Appended :
             chatSessions[messages[m].sessionId].updatedAt >= messages[m].createdAt)
    /\ [][\A s \in DOMAIN chatSessions :
             chatSessions'[s].updatedAt >= chatSessions[s].updatedAt]_vars


\* C32: a step of a loadChatSession call made for a user who is no longer the
\* selected one changes neither the message list nor the session id of the window.
C32_StaleLoadSetsNothing ==
    [][\A l \in DOMAIN window.loads :
          (/\ window'.loads[l].pc # window.loads[l].pc
           /\ window.loads[l].user # window.selectedUser)
          => /\ window'.messages = window.messages
             /\ window'.sessionId = window.sessionId]_vars

\* C33: the senderId of every message stored through message:send, and the
\* userId of every relayed typing event, is the identity of the verified token
\* of the connection whose handler ran, whatever the payload named.
C33_IdentityFromToken ==
    /\ \A t \in DOMAIN sends :
          sends[t].msg # NoMsg
          => /\ messages[sends[t].msg].senderId = sockets[sends[t].conn].token.id
             /\ sockets[sends[t].conn].token.kind = "valid"
             /\ secret
    /\ \A i \in DOMAIN emitted :
          emitted[i].ev \in TypingEvents
          => /\ emitted[i].user = sockets[emitted[i].src].token.id
             /\ sockets[emitted[i].src].token.kind = "valid"
             /\ secret

\* a message stored and a typing event relayed by an earlier socket while a
\* later socket of another identity is connected
C33_Witness ==
    /\ \E t \in DOMAIN sends :
          /\ sends[t].msg # NoMsg
          /\ \E c \in DOMAIN sockets :
                c > sends[t].conn /\ sockets[c].userId \notin {NoUser, sends[t].userId}
    /\ \E i \in DOMAIN emitted :
          /\ emitted[i].ev \in TypingEvents
          /\ \E c \in DOMAIN sockets :
                /\ c > emitted[i].src
                /\ sockets[c].userId \notin {NoUser, emitted[i].user}
                /\ emitted[i].to = c

\* C34: a message:receive is addressed to one socket, which authenticated as the
\* recipientId of the message it carries, and reaches no socket of another
\* identity, whatever connected or disconnected while the send was in progress.
C34_ReceiveOnlyToRecipient ==
    \A i \in DOMAIN emitted :
        emitted[i].ev = "message:receive"
        => /\ emitted[i].data.id \in DOMAIN messages
           /\ emitted[i].to \in DOMAIN sockets
           /\ emitted[i].rcv \subseteq {emitted[i].to}
           /\ \A c \in emitted[i].rcv \cup {emitted[i].to} :
                 /\ sockets[c].token.kind = "valid"
                 /\ sockets[c].token.id = messages[emitted[i].data.id].recipientId

\* a message:receive for a recipient who connected while the send was in
\* progress, emitted while the sender's socket, of another identity, is open
C34_Witness ==
    \E i \in DOMAIN emitted :
        /\ emitted[i].ev = "message:receive"
        /\ ~sends[emitted[i].send].onlineAtIssue
        /\ IsOpen(emitted[i].src)
        /\ sockets[emitted[i].src].userId # emitted[i].data.recipientId
        /\ emitted[i].src \notin emitted[i].rcv

C36_AckResolvesOwnSend ==
    [][(/\ link.in # <<>>
        /\ Head(link.in).ev \in {"message:sent", "message:error"}
        /\ link'.in = Tail(link.in))
       => /\ \A k \in 1..window.tempIds :
                (k # Head(link.in).send /\ TempId(k) \in Ids(window.messages))
                => TempId(k) \in Ids(window'.messages)
          /\ (window.awaiting \notin {0, Head(link.in).send})
                => window'.awaiting = window.awaiting]_vars

\* C37: every entry u -> c of the presence registry names a socket that
\* authenticated as u and is still connected, and every delivery decided from the
\* registry (message:receive, typing:start, typing:stop) reaches the socket it is
\* addressed to.
C37_RegistryNamesLiveConnection ==
    /\ \A u \in Users :
          onlineUsers[u] # NoConn
          => /\ IsOpen(onlineUsers[u])
             /\ sockets[onlineUsers[u]].userId = u
             /\ sockets[onlineUsers[u]].token = [kind |-> "valid", id |-> u]
    /\ \A i \in DOMAIN emitted :
          emitted[i].ev \in {"message:receive"} \cup TypingEvents
          => emitted[i].rcv = {emitted[i].to}

\* an entry that names a connected socket after a delivery to it, decided from
\* the registry, and after the disconnect of the socket that caused the delivery
C37_Witness ==
    \E i \in DOMAIN emitted :
        /\ emitted[i].ev \in {"message:receive"} \cup TypingEvents
        /\ emitted[i].src # emitted[i].to
        /\ sockets[emitted[i].src].st = "closed"
        /\ onlineUsers[sockets[emitted[i].to].userId] = emitted[i].to

\* C38: when the page fetched by loadMoreMessages is put in front of the list,
\* each of its messages is older than every stored message the list already
\* showed, and the stored messages of the new list are in createdAt order.
C38_LoadMorePrependsOlder ==
    [][(window.loadingMore /\ ~window'.loadingMore)
       => /\ \A i \in DOMAIN window.more.msgs, j \in DOMAIN window.messages :
                window.messages[j].id.tag = "row"
                => messages[window.more.msgs[i].id.n].createdAt
                      < messages[window.messages[j].id.n].createdAt
          /\ \A i, j \in DOMAIN window'.messages :
                (/\ i < j
                 /\ window'.messages[i].id.tag = "row"
                 /\ window'.messages[j].id.tag = "row")
                => messages[window'.messages[i].id.n].createdAt
                      <= messages[window'.messages[j].id.n].createdAt]_vars

\* the requests of the two routes that return messages
Reads == {q \in DOMAIN requests :
             requests[q].route \in {"GET /api/sessions/[id]", "GET /api/messages"}}

\* C39: a page fetch or message listing carries messages, or answers 200, only
\* for a caller who is one of the two participants of the session, and only
\* messages of that session; a caller without a login is answered 401 and an
\* authenticated caller who is no participant of the session 403, both without
\* a message.
C39_MessagesOnlyToParticipants ==
    \A q \in Reads :
        LET r == requests[q]
            found == FindSessionById(r.id)
        IN  /\ (r.msgs # <<>> \/ r.status = 200)
               => /\ found # NoSession
                  /\ r.caller \in {chatSessions[found].user1Id, chatSessions[found].user2Id}
                  /\ \A i \in DOMAIN r.msgs : messages[r.msgs[i]].sessionId = found
            /\ r.caller = NoUser => (r.pc = "done" /\ r.status = 401 /\ r.msgs = <<>>)
            /\ (/\ r.pc = "done"
                /\ r.caller # NoUser
                /\ found # NoSession
                /\ r.caller \notin {chatSessions[found].user1Id, chatSessions[found].user2Id})
               => (r.status = 403 /\ r.msgs = <<>>)

\* each route has refused an authenticated caller who is no participant of a
\* session that holds messages, while a participant of that session was
\* answered with its messages
C39_Witness ==
    /\ \A route \in {"GET /api/sessions/[id]", "GET /api/messages"} :
          \E q \in Reads :
              /\ requests[q].route = route
              /\ requests[q].status = 403
              /\ SessionMessages(requests[q].id) # {}
    /\ \E q, p \in Reads :
          /\ requests[q].status = 403
          /\ requests[p].status = 200
          /\ requests[p].id = requests[q].id
          /\ requests[p].msgs # <<>>
====
